---- MODULE Spec2Model ----
(***************************************************************************)
(* A model of the dermatology-clinic directory's offline collection        *)
(* scripts:                                                                 *)
(*   - the comprehensive script (grid sweep + city text search + detail     *)
(*     pass), src/unnamed/part_003;                                         *)
(*   - the fast city-only script, src/unnamed/part_004;                     *)
(*   - the all-states batch script, src/scripts/collectAllStates.ts.        *)
(* Text is kept as TLA+ strings and searched the way String.includes       *)
(* searches it, so the classifiers are computed, not assumed.               *)
(***************************************************************************)
EXTENDS Integers, Sequences, FiniteSets, TLC

VARIABLES
    \* ---- the run of a collection script ----
    script,            \* which script runs: "comprehensive", "fast", "allStates"
    statesToProcess,   \* the parsed --states argument
    maxRequests,       \* MAX_REQUESTS, the configured request ceiling
    pc,                \* where the run is: "main", "grid", "city", "detail",
                       \* "query", "summary", "done", "exit"
    si,                \* index in statesToProcess of the state last started
    TOTAL_REQUESTS,    \* the global request counter
    REJECTED_NON_US,   \* the global non-US rejection counter
    REJECTED_NON_DERM, \* the global non-dermatology rejection counter
    gp,                \* comprehensive: grid points of the state done so far
    gridIds,           \* comprehensive: gridSearchForState's clinicIds
    ci,                \* cities of the state done so far
    qi,                \* queries of the current city done so far
    pages,             \* comprehensive: pages fetched for the current query
    pageToken,         \* comprehensive: TRUE when a continuation token is held
    allClinics,        \* comprehensive: textSearchCity's allClinics (place_ids)
    cityIds,           \* comprehensive: citySearchForState's clinicIds
    allClinicIds,      \* comprehensive: collectStateData's allClinicIds
    di,                \* comprehensive: identifiers of the detail pass done
    clinics,           \* the records collected for the state in progress
    files,             \* the snapshot files: state code -> record array
    statesFailed,      \* all-states: stats.statesFailed
    \* ---- history (not program state) ----
    httpCalls,         \* number of outgoing HTTP calls issued
    budgetHit,         \* a budget check has failed
    hitState,          \* the state in progress when the budget check failed
    hitClinics,        \* the records collected for it at that moment
    lookups,           \* comprehensive: the detail lookups of the state
    unitsStarted,      \* the units of work attempted: <<state index, kind, unit>>
    unitFailed,        \* a call has failed for a reason other than the budget
    silentFailure,     \* such a failure has been skipped with nothing logged
    net,               \* calls in flight and the suspensions between calls
    pageRequests,      \* comprehensive: page requests of the current text query
    cityReturned,      \* comprehensive: <<state index, place_id>> of the accepted
                       \* places that successful city responses returned
    \* ---- one classification, for the pure functions ----
    cPlace,            \* the raw place record handed in
    cStep,             \* "input", "classified", "transformed"
    cAccepted,         \* isDermatologyClinic's result
    cClinic,           \* transformPlace's result
    \* ---- the clinics list page ----
    pageClinics,       \* the array held by the page's `clinics` state
    filteredClinics,   \* the array held by the `filteredClinics` state
    sharesArray,       \* both states hold one and the same array object
    filters,           \* the `filters` state
    loadedClinics,     \* history: the list as loadClinics received it
    lastOp,            \* history: the handler that ran last
    lastQuery,         \* history: the query of the last handleSearch
    lastPoint,         \* history: the point of the last handleLocationSearch
    threw,             \* history: the last handler ended with an exception
    \* ---- the clinics list page: loading ----
    loading,           \* the `loading` state
    navParams,         \* the state/city parameters of the URL
    effectsPending,    \* a render has been scheduled and its effects not yet run
    depsAtEffect,      \* [stateParam, cityParam] as the effect last saw them
    pending,           \* the list fetches in flight: [ id, params ]
    fetchesStarted,    \* history: number of loadClinics calls
    outcomes,          \* history: how each finished fetch ended, in order
    filtersChanged,    \* history: the last user action was a filter change
    \* ---- the store and the jobs that read or change it ----
    store,             \* the rows of the clinics table, in the order it serves them
    job,               \* what runs: "stats", "feature", "cleanup",
                       \* "detailServer", "detailClient"
    jobArgs,           \* its arguments
    jpc,               \* where it is
    jobLocals,         \* its local variables
    reply,             \* what it returned or rendered
    store0,            \* history: the store when the job began
    storeError,        \* history: a store request of the job has failed
    issued             \* history: the mutations sent to the store, in order

vars == << script, statesToProcess, maxRequests, pc, si, TOTAL_REQUESTS,
           REJECTED_NON_US, REJECTED_NON_DERM, gp, gridIds, ci, qi, pages,
           pageToken, allClinics, cityIds, allClinicIds, di, clinics, files,
           statesFailed, httpCalls, budgetHit, hitState, hitClinics, lookups,
           unitsStarted, unitFailed, silentFailure, net, pageRequests,
           cityReturned, cPlace, cStep, cAccepted, cClinic,
           pageClinics, filteredClinics, sharesArray, filters, loadedClinics,
           lastOp, lastQuery, lastPoint, threw,
           loading, navParams, effectsPending, depsAtEffect, pending,
           fetchesStarted, outcomes, filtersChanged,
           store, job, jobArgs, jpc, jobLocals, reply, store0, storeError,
           issued >>

runVars == << script, statesToProcess, maxRequests, pc, si, TOTAL_REQUESTS,
              gp, gridIds, ci, qi, pages, pageToken, allClinics, cityIds,
              allClinicIds, di, clinics, files, statesFailed, httpCalls,
              budgetHit, hitState, hitClinics, lookups, unitsStarted,
              unitFailed, silentFailure, net, pageRequests, cityReturned >>

classifyVars == << cPlace, cStep, cAccepted, cClinic >>

uiVars == << pageClinics, filteredClinics, sharesArray, filters, loadedClinics,
             lastOp, lastQuery, lastPoint, threw >>

loadVars == << loading, navParams, effectsPending, depsAtEffect, pending,
              fetchesStarted, outcomes, filtersChanged >>

storeVars == << store, job, jobArgs, jpc, jobLocals, reply, store0,
               storeError, issued >>

siteVars == << loadVars, storeVars >>

\* JavaScript's null / undefined: a missing string field, a missing record.
NULL == "<null>"
NoRecord == [ null |-> TRUE ]

-----------------------------------------------------------------------------
(* Strings *)

Range(s) == { s[i] : i \in DOMAIN s }

\* String.prototype.includes
Includes(s, t) ==
    \E i \in 0..(Len(s) - Len(t)) : SubSeq(s, i + 1, i + Len(t)) = t

CharAt(s, i) == SubSeq(s, i, i)

UpperCase == << "A","B","C","D","E","F","G","H","I","J","K","L","M",
                "N","O","P","Q","R","S","T","U","V","W","X","Y","Z" >>
LowerCase == << "a","b","c","d","e","f","g","h","i","j","k","l","m",
                "n","o","p","q","r","s","t","u","v","w","x","y","z" >>
Digits == { "0","1","2","3","4","5","6","7","8","9" }

LowerChar(c) ==
    IF \E k \in DOMAIN UpperCase : UpperCase[k] = c
    THEN LowerCase[CHOOSE k \in DOMAIN UpperCase : UpperCase[k] = c]
    ELSE c

RECURSIVE toLowerCase(_)
\* String.prototype.toLowerCase
toLowerCase(s) ==
    IF Len(s) = 0 THEN ""
    ELSE IF Len(s) = 1 THEN LowerChar(s)
    ELSE toLowerCase(SubSeq(s, 1, Len(s) \div 2))
           \o toLowerCase(SubSeq(s, (Len(s) \div 2) + 1, Len(s)))

RECURSIVE join(_, _)
\* Array.prototype.join
join(arr, sep) ==
    IF Len(arr) = 0 THEN ""
    ELSE IF Len(arr) = 1 THEN arr[1]
    ELSE arr[1] \o sep \o join(Tail(arr), sep)

\* JavaScript truthiness of a string-or-missing value
Truthy(v) == v # NULL /\ v # ""

\* v || ''
OrEmpty(v) == IF Truthy(v) THEN v ELSE ""

IsUpper(c) == \E k \in DOMAIN UpperCase : UpperCase[k] = c
IsWordChar(c) ==
    \/ IsUpper(c)
    \/ \E k \in DOMAIN LowerCase : LowerCase[k] = c
    \/ c \in Digits
    \/ c = "_"
IsSpace(c) == c = " "

-----------------------------------------------------------------------------
(* The state tables of the three scripts *)

\* comprehensive script: Object.keys(US_STATES)
VALID_US_STATES == { "CA", "TX", "FL", "NY", "PA", "IL", "OH", "GA", "NC", "MI" }

\* fast script: STATES, code -> name
STATES ==
    (    "CA" :> "California" @@ "NY" :> "New York" @@ "TX" :> "Texas"
      @@ "FL" :> "Florida" @@ "PA" :> "Pennsylvania" )

\* all-states script: ALL_STATES, code -> name
ALL_STATES ==
    (    "AL" :> "Alabama" @@ "AK" :> "Alaska" @@ "AZ" :> "Arizona"
      @@ "AR" :> "Arkansas" @@ "CA" :> "California" @@ "CO" :> "Colorado"
      @@ "CT" :> "Connecticut" @@ "DE" :> "Delaware" @@ "FL" :> "Florida"
      @@ "GA" :> "Georgia" @@ "HI" :> "Hawaii" @@ "ID" :> "Idaho"
      @@ "IL" :> "Illinois" @@ "IN" :> "Indiana" @@ "IA" :> "Iowa"
      @@ "KS" :> "Kansas" @@ "KY" :> "Kentucky" @@ "LA" :> "Louisiana"
      @@ "ME" :> "Maine" @@ "MD" :> "Maryland" @@ "MA" :> "Massachusetts"
      @@ "MI" :> "Michigan" @@ "MN" :> "Minnesota" @@ "MS" :> "Mississippi"
      @@ "MO" :> "Missouri" @@ "MT" :> "Montana" @@ "NE" :> "Nebraska"
      @@ "NV" :> "Nevada" @@ "NH" :> "New Hampshire" @@ "NJ" :> "New Jersey"
      @@ "NM" :> "New Mexico" @@ "NY" :> "New York" @@ "NC" :> "North Carolina"
      @@ "ND" :> "North Dakota" @@ "OH" :> "Ohio" @@ "OK" :> "Oklahoma"
      @@ "OR" :> "Oregon" @@ "PA" :> "Pennsylvania" @@ "RI" :> "Rhode Island"
      @@ "SC" :> "South Carolina" @@ "SD" :> "South Dakota" @@ "TN" :> "Tennessee"
      @@ "TX" :> "Texas" @@ "UT" :> "Utah" @@ "VT" :> "Vermont"
      @@ "VA" :> "Virginia" @@ "WA" :> "Washington" @@ "WV" :> "West Virginia"
      @@ "WI" :> "Wisconsin" @@ "WY" :> "Wyoming" )

\* cleanup script: the 50 states plus DC
FIFTY_STATES_AND_DC ==
    { "AL","AK","AZ","AR","CA","CO","CT","DE","FL","GA","HI","ID","IL","IN",
      "IA","KS","KY","LA","ME","MD","MA","MI","MN","MS","MO","MT","NE","NV",
      "NH","NJ","NM","NY","NC","ND","OH","OK","OR","PA","RI","SC","SD","TN",
      "TX","UT","VT","VA","WA","WV","WI","WY","DC" }

\* The states a script knows: the keys of its table.
KnownStates(scr) ==
    CASE scr = "comprehensive" -> VALID_US_STATES
      [] scr = "fast" -> DOMAIN STATES
      [] scr = "allStates" -> DOMAIN ALL_STATES

-----------------------------------------------------------------------------
(* Address Component Parser (comprehensive script) *)

\* components?.find(c => c.types?.includes(type)): the index of the first
\* component carrying the type, 0 when there is none
get(components, type) ==
    IF \E i \in DOMAIN components : type \in Range(components[i].types)
    THEN CHOOSE i \in DOMAIN components :
           /\ type \in Range(components[i].types)
           /\ \A j \in DOMAIN components :
                type \in Range(components[j].types) => i <= j
    ELSE 0

\* get(type)?.shortText ?? null
ShortTextOf(components, type) ==
    IF get(components, type) = 0 THEN NULL
    ELSE components[get(components, type)].shortText
\* get(type)?.longText ?? null
LongTextOf(components, type) ==
    IF get(components, type) = 0 THEN NULL
    ELSE components[get(components, type)].longText

parseAddressComponents(components) ==
    [ state_code   |-> ShortTextOf(components, "administrative_area_level_1"),
      city         |-> IF LongTextOf(components, "locality") # NULL
                       THEN LongTextOf(components, "locality")
                       ELSE LongTextOf(components, "postal_town"),
      postal_code  |-> LongTextOf(components, "postal_code"),
      country_code |-> ShortTextOf(components, "country") ]

\* place.addressComponents ?? []: a missing list is kept as the empty list
ComponentsOf(place) == place.addressComponents

-----------------------------------------------------------------------------
(* Dermatology Filtering Logic (comprehensive script) *)

excludeTerms == << "dental", "dentist", "orthodont", "veterinary", "animal",
                   "pet", "massage", "spa resort", "nail salon" >>

coreTerms == << "dermatology", "dermatologist", "dermatologic" >>

relatedTerms == << "skin clinic", "skin center", "skin care clinic",
                   "skin doctor", "skin specialist", "skin health",
                   "medical dermatology", "cosmetic dermatology",
                   "mohs surgery", "skin cancer" >>

nameOf(place)    == toLowerCase(OrEmpty(place.displayName))
websiteOf(place) == toLowerCase(OrEmpty(place.websiteUri))
\* (place.types || []): a missing list is kept as the empty list
typesOf(place)   == toLowerCase(join(place.types, " "))
searchTextOf(place) ==
    nameOf(place) \o " " \o websiteOf(place) \o " " \o typesOf(place)

\* The two US checks on the parsed address, in the order the code makes them.
RejectsNonUS(ac) ==
    \/ (Truthy(ac.country_code) /\ ac.country_code # "US")
    \/ (~Truthy(ac.state_code) \/ ac.state_code \notin VALID_US_STATES)

\* A faulty classifier that tests the skin_care_clinic tag and the core terms
\* before the exclusion terms.
DermVerdictCoreFirst(place) ==
    LET name == nameOf(place)
        website == websiteOf(place)
        types == typesOf(place)
        searchText == searchTextOf(place)
        ac == parseAddressComponents(ComponentsOf(place))
        medicalContext ==
            \/ Includes(types, "doctor") \/ Includes(types, "health")
            \/ Includes(searchText, "medical") \/ Includes(searchText, "clinic")
    IN  IF RejectsNonUS(ac) THEN "non_us"
        ELSE IF Includes(types, "skin_care_clinic") THEN "accept"
        ELSE IF \E i \in DOMAIN coreTerms : Includes(searchText, coreTerms[i])
             THEN "accept"
        ELSE IF \E i \in DOMAIN excludeTerms : Includes(searchText, excludeTerms[i])
             THEN "non_dermatology"
        ELSE IF \E i \in DOMAIN relatedTerms :
                   Includes(name, relatedTerms[i]) \/ Includes(website, relatedTerms[i])
             THEN "accept"
        ELSE IF (Includes(searchText, "derm")
                   \/ Includes(name, "skin") \/ Includes(website, "skin"))
                /\ medicalContext
             THEN "accept"
        ELSE "non_dermatology"

\* The classifier with the counter it increments: "accept", or the rejection
\* class "non_us" (REJECTED_NON_US++) or "non_dermatology" (REJECTED_NON_DERM++).
DermVerdict(place) ==
    LET name == nameOf(place)
        website == websiteOf(place)
        types == typesOf(place)
        searchText == searchTextOf(place)
        ac == parseAddressComponents(ComponentsOf(place))
        hasDerm == Includes(searchText, "derm")
        hasSkin == Includes(name, "skin") \/ Includes(website, "skin")
        medicalContext ==
            \/ Includes(types, "doctor") \/ Includes(types, "health")
            \/ Includes(searchText, "medical") \/ Includes(searchText, "clinic")
    IN  IF RejectsNonUS(ac) THEN "non_us"
        ELSE IF \E i \in DOMAIN excludeTerms : Includes(searchText, excludeTerms[i])
             THEN "non_dermatology"
        ELSE IF Includes(types, "skin_care_clinic") THEN "accept"
        ELSE IF \E i \in DOMAIN coreTerms : Includes(searchText, coreTerms[i])
             THEN "accept"
        ELSE IF \E i \in DOMAIN relatedTerms :
                   Includes(name, relatedTerms[i]) \/ Includes(website, relatedTerms[i])
             THEN "accept"
        ELSE IF (hasDerm \/ hasSkin) /\ medicalContext THEN "accept"
        ELSE "non_dermatology"

isDermatologyClinic(place) == DermVerdict(place) = "accept"

-----------------------------------------------------------------------------
(* Transform Place to Clinic Object (comprehensive script) *)

\* The fields that only pass through (location, rating, hours, options, photos,
\* ...) all map as `x ?? null`; phone stands for them.
transformPlace(place) ==
    LET ac == parseAddressComponents(ComponentsOf(place))
    IN  IF Truthy(ac.country_code) /\ ac.country_code # "US" THEN NoRecord
        ELSE IF ~Truthy(ac.state_code) \/ ac.state_code \notin VALID_US_STATES
             THEN NoRecord
        ELSE [ place_id          |-> place.id,
               display_name      |-> place.displayName,
               formatted_address |-> place.formattedAddress,
               types             |-> place.types,
               phone             |-> place.nationalPhoneNumber,
               website           |-> place.websiteUri,
               city              |-> ac.city,
               state_code        |-> ac.state_code,
               postal_code       |-> ac.postal_code ]

-----------------------------------------------------------------------------
(* The name and address heuristics of the fast and all-states scripts *)

\* isDermatologyClinic(name) of the two city-only scripts
isDermatologyName(name) ==
    LET lowerName == toLowerCase(name)
    IN  Includes(lowerName, "derm") \/ Includes(lowerName, "skin")
          \/ Includes(lowerName, "derma")

\* /\b[A-Z]{2}\s+\d{5}\b/.test(address)
statePattern(address) ==
    \E i \in 1..Len(address) : \E k \in 1..Len(address) :
        /\ i + 1 + k + 5 <= Len(address)
        /\ IsUpper(CharAt(address, i)) /\ IsUpper(CharAt(address, i + 1))
        /\ (i = 1 \/ ~IsWordChar(CharAt(address, i - 1)))
        /\ \A j \in 1..k : IsSpace(CharAt(address, i + 1 + j))
        /\ \A j \in 1..5 : CharAt(address, i + 1 + k + j) \in Digits
        /\ (i + 1 + k + 5 = Len(address)
              \/ ~IsWordChar(CharAt(address, i + 1 + k + 6)))

\* Object.values(table).map(s => s.name.toLowerCase())
stateNames(table) == { toLowerCase(table[c]) : c \in DOMAIN table }
fastStateNames == stateNames(STATES)
allStateNames == stateNames(ALL_STATES)

isUSAddress(address, names) ==
    IF ~Truthy(address) THEN FALSE
    ELSE LET lowerAddress == toLowerCase(address)
             hasUSA == Includes(lowerAddress, "usa")
                         \/ Includes(lowerAddress, "united states")
             hasStateZip == statePattern(address)
             hasStateName == \E n \in names : Includes(lowerAddress, n)
         IN  hasUSA \/ hasStateZip \/ hasStateName

\* parseClinicFromPlace with the counter it increments: the Clinic, or
\* "no_id" (nothing counted), "non_dermatology" (rejectedNonDerm++),
\* "non_us" (rejectedNonUS++).
parseVerdict(place, names) ==
    IF ~Truthy(place.id) THEN "no_id"
    ELSE IF ~isDermatologyName(OrEmpty(place.displayName)) THEN "non_dermatology"
    ELSE IF ~isUSAddress(place.formattedAddress, names) THEN "non_us"
    ELSE "accept"

parseClinicFromPlace(place, names) ==
    IF parseVerdict(place, names) # "accept" THEN NoRecord
    ELSE [ id               |-> place.id,
           name             |-> OrEmpty(place.displayName),
           formattedAddress |-> place.formattedAddress,
           phone            |-> place.nationalPhoneNumber,
           website          |-> place.websiteUri,
           types            |-> place.types ]

-----------------------------------------------------------------------------
(* Raw place records handed to the pure functions *)

Component(types, shortText, longText) ==
    [ types |-> types, shortText |-> shortText, longText |-> longText ]

Locality(long)    == Component(<< "locality", "political" >>, long, long)
AdminArea(short)  == Component(<< "administrative_area_level_1", "political" >>,
                               short, short)
Country(short)    == Component(<< "country", "political" >>, short, short)
PostalCode(long)  == Component(<< "postal_code" >>, long, long)

SampleAddressComponents ==
    { << Locality("Beverly Hills"), AdminArea("CA"), Country("US"), PostalCode("90210") >>,
      << Locality("Seattle"), AdminArea("WA"), Country("US"), PostalCode("98101") >>,
      << Locality("Washington"), AdminArea("DC"), Country("US") >>,
      << Locality("Belem"), AdminArea("PA"), Country("BR") >>,
      << Locality("Tbilisi"), AdminArea("Tbilisi"), Country("GE") >>,
      << Locality("Albany"), AdminArea("NY") >>,
      << Locality("Springfield"), Country("US") >>,
      << >> }

SampleNames ==
    { NULL,
      "Bright Dermatology",
      "Pet Dermatology Center",
      "Dermatologist Spa Resort",
      "Skin Cancer Institute",
      "Derm Associates",
      "Glow Skin Studio",
      "Skin and Laser Medical Group",
      "Main Street Dental",
      "Family Clinic",
      "Carpet World" }

SampleWebsites ==
    { NULL, "https://www.dermclinic.com", "https://example.org" }

SampleTypes ==
    { << >>,
      << "doctor", "health" >>,
      << "skin_care_clinic", "point_of_interest" >>,
      << "spa", "establishment" >>,
      << "dentist", "health" >> }

SampleIds == { NULL, "p1" }

RawPlace(id, name, website, types, components, address, phone) ==
    [ id |-> id, displayName |-> name, websiteUri |-> website, types |-> types,
      addressComponents |-> components, formattedAddress |-> address,
      nationalPhoneNumber |-> phone ]

ClassifyInputs ==
    { RawPlace(id, name, website, types, components, NULL, NULL) :
        id \in SampleIds, name \in SampleNames, website \in SampleWebsites,
        types \in SampleTypes, components \in SampleAddressComponents }

-----------------------------------------------------------------------------
(* One place through isDermatologyClinic and transformPlace *)

\* The list page, idle while the scripts or the pure functions are exercised.
UIIdle ==
    /\ pageClinics = << >> /\ filteredClinics = << >> /\ sharesArray = TRUE
    /\ filters = NoRecord /\ loadedClinics = << >>
    /\ lastOp = "idle" /\ lastQuery = "" /\ lastPoint = NoRecord /\ threw = FALSE

\* The list page's loader, idle.
LoadIdle ==
    /\ loading = FALSE /\ navParams = NoRecord /\ effectsPending = FALSE
    /\ depsAtEffect = NoRecord /\ pending = {} /\ fetchesStarted = 0
    /\ outcomes = << >> /\ filtersChanged = FALSE

\* No job runs on the store.
StoreIdle ==
    /\ store = << >> /\ job = "none" /\ jobArgs = NoRecord /\ jpc = "idle"
    /\ jobLocals = NoRecord /\ reply = NoRecord /\ store0 = << >>
    /\ storeError = FALSE /\ issued = << >>

\* Everything of the site outside the collection scripts, idle.
SiteIdle == LoadIdle /\ StoreIdle

\* No call issued yet, nothing slept.
NetIdle == [ inFlight |-> 0, maxInFlight |-> 0, slept |-> 0, lastGap |-> 0 ]

TraceIdle ==
    /\ unitsStarted = {} /\ unitFailed = FALSE /\ silentFailure = FALSE
    /\ net = NetIdle /\ pageRequests = 0 /\ cityReturned = {}

\* The run of a script, idle while the pure functions are exercised.
RunIdle ==
    /\ script = "none" /\ statesToProcess = << >> /\ maxRequests = 0
    /\ pc = "idle" /\ si = 0 /\ TOTAL_REQUESTS = 0
    /\ gp = 0 /\ gridIds = << >> /\ ci = 0 /\ qi = 0 /\ pages = 0
    /\ pageToken = FALSE /\ allClinics = << >> /\ cityIds = << >>
    /\ allClinicIds = << >> /\ di = 0 /\ clinics = << >>
    /\ files = << >> /\ statesFailed = << >>
    /\ httpCalls = 0 /\ budgetHit = FALSE /\ hitState = NULL
    /\ hitClinics = << >> /\ lookups = << >>
    /\ TraceIdle

ClassifyIdle ==
    cPlace = NoRecord /\ cStep = "idle" /\ cAccepted = FALSE /\ cClinic = NoRecord

InitClassify ==
    /\ RunIdle
    /\ REJECTED_NON_US = 0 /\ REJECTED_NON_DERM = 0
    /\ cPlace \in ClassifyInputs
    /\ cStep = "input" /\ cAccepted = FALSE /\ cClinic = NoRecord
    /\ UIIdle /\ SiteIdle

\* isDermatologyClinic(place): the result and the counter it bumps
Classify ==
    /\ cStep = "input"
    /\ cAccepted' = isDermatologyClinic(cPlace)
    /\ REJECTED_NON_US' =
         REJECTED_NON_US + (IF DermVerdict(cPlace) = "non_us" THEN 1 ELSE 0)
    /\ REJECTED_NON_DERM' =
         REJECTED_NON_DERM + (IF DermVerdict(cPlace) = "non_dermatology" THEN 1 ELSE 0)
    /\ cStep' = "classified"
    /\ UNCHANGED << cPlace, cClinic >>
    /\ UNCHANGED << runVars, uiVars, siteVars >>

\* transformPlace(place)
Transform ==
    /\ cStep = "classified"
    /\ cClinic' = transformPlace(cPlace)
    /\ cStep' = "transformed"
    /\ UNCHANGED << cPlace, cAccepted, REJECTED_NON_US, REJECTED_NON_DERM >>
    /\ UNCHANGED << runVars, uiVars, siteVars >>

NextClassify == Classify \/ Transform

SpecClassify == InitClassify /\ [][NextClassify]_vars

-----------------------------------------------------------------------------
(* The run of a collection script: bounds, inputs and the external source *)

\* Largest request ceiling tried for MAX_REQUESTS.
MaxCeiling == 7
\* The model's bounding box of a state spans this many longitude steps (and one
\* latitude row): the lattice of a real state has hundreds of points.
MaxLngSteps == 0
\* The model's city list of a state has this many cities (5 to 25 in the tables).
NumCities == 1
\* The run is followed while each rejection counter is at most this.
MaxRejected == 1

Scripts == { "comprehensive", "fast", "allStates" }

\* The --states arguments tried, parsed; "ZZ" is in no script's table.
ArgLists ==
    { << "CA" >>, << "ZZ", "CA" >>, << "CA", "NY" >>, << "NY", "ZZ" >> }

\* What the external places source may hold.  Two fetches of one identifier may
\* differ (p1's phone): the source's data changes between discovery and detail.
BrightDerm(phone) ==
    RawPlace("p1", "Bright Dermatology", "https://www.dermclinic.com",
             << "doctor", "health" >>,
             << Locality("Beverly Hills"), AdminArea("CA"), Country("US"),
                PostalCode("90210") >>,
             "1 Main St, Beverly Hills, CA 90210, USA", phone)
SkinCancerInstitute ==
    RawPlace("p2", "Skin Cancer Institute", NULL, << "doctor" >>,
             << Locality("Albany"), AdminArea("NY"), Country("US"),
                PostalCode("12207") >>,
             "5 State St, Albany, NY 12207, USA", NULL)
DermaBuenosAires ==
    RawPlace("p3", "Derma Center Buenos Aires", NULL, << "doctor", "health" >>,
             << Locality("Buenos Aires"), AdminArea("CABA"), Country("AR") >>,
             "Florida 165, C1005 Buenos Aires, Argentina", NULL)
MainStreetDental ==
    RawPlace("p4", "Main Street Dental", NULL, << "dentist", "health" >>,
             << Locality("Beverly Hills"), AdminArea("CA"), Country("US"),
                PostalCode("90210") >>,
             "9 Main St, Beverly Hills, CA 90210, USA", NULL)

RunPlaces ==
    { BrightDerm(NULL), BrightDerm("(310) 555-0100"), SkinCancerInstitute,
      DermaBuenosAires, MainStreetDental }

\* The place lists a response may carry (up to 20 in the scripts' requests):
\* none, any one place, and two lists of two, one of them with the same
\* identifier twice.
PlaceLists ==
    { << >> } \cup { << p >> : p \in RunPlaces }
      \cup { << BrightDerm(NULL), BrightDerm("(310) 555-0100") >>,
             << SkinCancerInstitute, BrightDerm(NULL) >> }

\* A response of a search call: not ok (or the call threw), or ok with a list
\* of places and, for a text search, possibly a next-page token.
FailedResponse == [ ok |-> FALSE, places |-> << >>, nextPageToken |-> FALSE ]
NearbyResponses ==
    { FailedResponse }
      \cup { [ ok |-> TRUE, places |-> ps, nextPageToken |-> FALSE ] : ps \in PlaceLists }
TextResponses ==
    { FailedResponse }
      \cup { [ ok |-> TRUE, places |-> ps, nextPageToken |-> t ] :
               ps \in PlaceLists, t \in BOOLEAN }
\* A detail lookup answers with the place of that identifier, or fails.
DetailResponses(placeId) ==
    { FailedResponse }
      \cup { [ ok |-> TRUE, places |-> << p >>, nextPageToken |-> FALSE ] :
               p \in { q \in RunPlaces : q.id = placeId } }

\* for (lat ...; lat += latStep) for (lng ...; lng += lngStep): the lattice
\* points of the model's box, row by row
GridPoints == 1 * (MaxLngSteps + 1)

\* comprehensive: the three query phrasings of textSearchCity
textQueries == << "dermatology clinic in", "dermatologist", "skin clinic" >>
\* fast and all-states: the three query phrasings per city
cityQueries == << "dermatology", "dermatologist", "skin doctor" >>
\* comprehensive: while (pageToken && pages < 3)
MaxPages == 3

-----------------------------------------------------------------------------
(* Collections *)

\* A faulty add that keeps duplicates.
SetAddDup(set, x) == Append(set, x)

\* Set.prototype.add on an insertion-ordered Set, kept as a sequence
SetAdd(set, x) == IF x \in Range(set) THEN set ELSE Append(set, x)

RECURSIVE SetAddAll(_, _)
SetAddAll(set, xs) ==
    IF Len(xs) = 0 THEN set ELSE SetAddAll(SetAdd(set, Head(xs)), Tail(xs))

\* Map.prototype.set on an insertion-ordered Map of entries keyed by rec.id
MapSet(map, e) ==
    IF \E i \in DOMAIN map : map[i].rec.id = e.rec.id
    THEN [ i \in DOMAIN map |-> IF map[i].rec.id = e.rec.id THEN e ELSE map[i] ]
    ELSE Append(map, e)

RECURSIVE MapSetAll(_, _)
MapSetAll(map, es) ==
    IF Len(es) = 0 THEN map ELSE MapSetAll(MapSet(map, Head(es)), Tail(es))

\* A collected record with the raw place it was built from (history).
Entry(rec, place) == [ rec |-> rec, from |-> place ]

RECURSIVE MapSeq(_, _)
MapSeq(f(_), xs) ==
    IF Len(xs) = 0 THEN << >> ELSE << f(Head(xs)) >> \o MapSeq(f, Tail(xs))

-----------------------------------------------------------------------------
(* Pacing: what a script does on the network, as a sequence of events *)

\* PLACES_QPS (default) and RATE_LIMIT_QPS
QPS == 3
\* PLACES_NEXT_PAGE_DELAY_MS (default)
NEXT_PAGE_DELAY_MS == 1200

\* Math.ceil(1000 / QPS)
PacingDelay == (1000 + QPS - 1) \div QPS

Sleep(ms) == [ e |-> "sleep", ms |-> ms ]
Issue == [ e |-> "issue", ms |-> 0 ]
Settle == [ e |-> "settle", ms |-> 0 ]

\* A faulty call that is issued without the pacing suspension.
CallEventsUnpaced == << Issue, Settle >>

\* One outgoing call: checkRequestLimit / makeRequest suspends for the pacing
\* delay, then the fetch is issued and awaited.
CallEvents == << Sleep(PacingDelay), Issue, Settle >>

\* A faulty continuation that does not wait before the next page.
TokenEventsNoDelay == << >>

\* textSearchCity: if (pageToken) await sleep(NEXT_PAGE_DELAY_MS)
TokenEvents == << Sleep(NEXT_PAGE_DELAY_MS) >>

\* The effect of one event: slept is the time suspended since the last call
\* was issued, lastGap the value it had when the last call was issued.
TrackEvent(n, ev) ==
    CASE ev.e = "sleep" -> [ n EXCEPT !.slept = @ + ev.ms ]
      [] ev.e = "issue" ->
           [ n EXCEPT !.inFlight = @ + 1,
                      !.maxInFlight = IF n.inFlight + 1 > @ THEN n.inFlight + 1 ELSE @,
                      !.lastGap = n.slept,
                      !.slept = 0 ]
      [] ev.e = "settle" -> [ n EXCEPT !.inFlight = @ - 1 ]

RECURSIVE Track(_, _)
Track(n, events) ==
    IF Len(events) = 0 THEN n
    ELSE Track(TrackEvent(n, Head(events)), Tail(events))

-----------------------------------------------------------------------------
(* The request budget *)

\* A faulty check that lets one more request through.
LimitReachedOffByOne(total, max) == total > max

\* comprehensive, checkRequestLimit: TOTAL_REQUESTS >= MAX_REQUESTS, tested
\* before the counter is incremented
LimitReached(total, max) == total >= max

\* fast and all-states, makeRequest: stats.totalRequests >= MAX_REQUESTS,
\* tested after the counter is incremented
LimitReachedAfterIncrement(total, max) == total + 1 >= max

-----------------------------------------------------------------------------
(* What a search response adds *)

\* The classifier, the transformer and the parser on the places the external
\* source holds, computed once for the run.
verdictOfPlace == [ p \in RunPlaces |-> DermVerdict(p) ]
acceptedPlace == [ p \in RunPlaces |-> isDermatologyClinic(p) ]
transformedPlace == [ p \in RunPlaces |-> transformPlace(p) ]
parseVerdictOfPlace ==
    [ scr \in { "fast", "allStates" } |->
        [ p \in RunPlaces |->
            parseVerdict(p, IF scr = "fast" THEN fastStateNames ELSE allStateNames) ] ]
parsedPlace ==
    [ scr \in { "fast", "allStates" } |->
        [ p \in RunPlaces |->
            parseClinicFromPlace(p, IF scr = "fast" THEN fastStateNames
                                    ELSE allStateNames) ] ]

\* (data.places || []).filter(isDermatologyClinic).map(transformPlace)
\*    .filter(c => c !== null), as place_ids
AcceptedIds(places) ==
    LET Accepted(place) == acceptedPlace[place]
        TransformedOf(place) == transformedPlace[place]
        IsRecord(c) == c # NoRecord
        PlaceIdOf(c) == c.place_id
    IN  MapSeq(PlaceIdOf,
               SelectSeq(MapSeq(TransformedOf, SelectSeq(places, Accepted)),
                         IsRecord))

\* How many places of a response the classifier rejects with a verdict
\* (REJECTED_NON_US++, REJECTED_NON_DERM++).
Rejected(places, verdict) ==
    Cardinality({ i \in DOMAIN places : verdictOfPlace[places[i]] = verdict })

\* fast / all-states: places.forEach(place => { clinic = parseClinicFromPlace(place);
\*    if (clinic) clinics.set(clinic.id, clinic) })
ParsedEntries(places, scr) ==
    LET Parsed(place) == Entry(parsedPlace[scr][place], place)
        Kept(e) == e.rec # NoRecord
    IN  SelectSeq(MapSeq(Parsed, places), Kept)

\* How many places of a response parseClinicFromPlace rejects with a verdict
\* (stats.rejectedNonUS++, stats.rejectedNonDerm++).
ParseRejected(places, scr, verdict) ==
    Cardinality({ i \in DOMAIN places : parseVerdictOfPlace[scr][places[i]] = verdict })

-----------------------------------------------------------------------------
(* The run: main *)

Init ==
    /\ script \in Scripts
    /\ statesToProcess \in ArgLists
    /\ maxRequests \in 1..MaxCeiling
    /\ pc = "main" /\ si = 0
    /\ TOTAL_REQUESTS = 0 /\ REJECTED_NON_US = 0 /\ REJECTED_NON_DERM = 0
    /\ gp = 0 /\ gridIds = << >> /\ ci = 0 /\ qi = 0 /\ pages = 0
    /\ pageToken = FALSE /\ allClinics = << >> /\ cityIds = << >>
    /\ allClinicIds = << >> /\ di = 0 /\ clinics = << >>
    /\ files = << >> /\ statesFailed = << >>
    /\ httpCalls = 0 /\ budgetHit = FALSE /\ hitState = NULL
    /\ hitClinics = << >> /\ lookups = << >>
    /\ TraceIdle
    /\ ClassifyIdle
    /\ UIIdle /\ SiteIdle

discoveryVars == << gp, gridIds, ci, qi, pages, pageToken, allClinics, cityIds,
                    allClinicIds, di, lookups >>
counters == << REJECTED_NON_US, REJECTED_NON_DERM >>
hitVars == << budgetHit, hitState, hitClinics >>
traceVars == << unitsStarted, unitFailed, silentFailure, net, pageRequests,
               cityReturned >>
historyVars == << hitVars, traceVars >>
inputVars == << script, statesToProcess, maxRequests >>

CurrentState == statesToProcess[si]

\* The model follows a run only while its rejection counters are in bound.
CountersInBound ==
    REJECTED_NON_US <= MaxRejected /\ REJECTED_NON_DERM <= MaxRejected

\* main's loop, next state code: not in the script's table.  The all-states
\* script records it as failed; the others only log it.
SkipUnknownState ==
    /\ pc = "main" /\ si < Len(statesToProcess)
    /\ statesToProcess[si + 1] \notin KnownStates(script)
    /\ si' = si + 1
    /\ statesFailed' = IF script = "allStates"
                       THEN Append(statesFailed, statesToProcess[si + 1])
                       ELSE statesFailed
    /\ UNCHANGED << pc, TOTAL_REQUESTS, clinics, files, httpCalls >>
    /\ UNCHANGED << inputVars, discoveryVars, counters, historyVars, classifyVars, uiVars, siteVars >>

\* main's loop, next state code: collectStateData(stateCode) is entered with
\* fresh locals.
StartState ==
    /\ pc = "main" /\ si < Len(statesToProcess)
    /\ statesToProcess[si + 1] \in KnownStates(script)
    /\ si' = si + 1
    /\ pc' = IF script = "comprehensive" THEN "grid" ELSE "query"
    /\ gp' = 0 /\ gridIds' = << >> /\ ci' = 0 /\ qi' = 0 /\ pages' = 0
    /\ pageToken' = FALSE /\ allClinics' = << >> /\ cityIds' = << >>
    /\ allClinicIds' = << >> /\ di' = 0 /\ clinics' = << >> /\ lookups' = << >>
    /\ UNCHANGED << TOTAL_REQUESTS, files, statesFailed, httpCalls >>
    /\ UNCHANGED << inputVars, counters, historyVars, classifyVars, uiVars, siteVars >>

\* main's loop is over: the final summary is printed.
Finish ==
    /\ pc = "main" /\ si = Len(statesToProcess)
    /\ pc' = "done"
    /\ UNCHANGED << si, TOTAL_REQUESTS, clinics, files, statesFailed, httpCalls >>
    /\ UNCHANGED << inputVars, discoveryVars, counters, historyVars, classifyVars, uiVars, siteVars >>

\* A budget check fails inside collectStateData.  The error leaves every loop
\* of the state; what main does with it depends on the script:
\*   comprehensive: caught in main, break, summary printed;
\*   fast:          not caught, main().catch -> process.exit(1);
\*   all-states:    caught in main, the state is pushed to statesFailed and the
\*                  loop goes on.
BudgetExceeded ==
    /\ budgetHit' = TRUE
    /\ hitState' = CurrentState
    /\ hitClinics' = clinics
    /\ pc' = CASE script = "comprehensive" -> "done"
               [] script = "fast" -> "exit"
               [] script = "allStates" -> "main"
    /\ statesFailed' = IF script = "allStates"
                       THEN Append(statesFailed, CurrentState)
                       ELSE statesFailed
    /\ UNCHANGED << si, clinics, files, httpCalls >>
    /\ UNCHANGED << inputVars, discoveryVars, counters, traceVars, classifyVars, uiVars, siteVars >>

-----------------------------------------------------------------------------
(* The run: comprehensive script *)

\* One grid point of gridSearchForState: nearbySearchAtPoint.
GridPoint ==
    /\ script = "comprehensive" /\ pc = "grid" /\ gp < GridPoints
    /\ IF LimitReached(TOTAL_REQUESTS, maxRequests)
       THEN BudgetExceeded /\ UNCHANGED TOTAL_REQUESTS
       ELSE /\ TOTAL_REQUESTS' = TOTAL_REQUESTS + 1
            /\ httpCalls' = httpCalls + 1
            /\ \E resp \in NearbyResponses :
                 /\ gridIds' = IF resp.ok
                               THEN SetAddAll(gridIds, AcceptedIds(resp.places))
                               ELSE gridIds
                 /\ REJECTED_NON_US' = REJECTED_NON_US + Rejected(resp.places, "non_us")
                 /\ REJECTED_NON_DERM' = REJECTED_NON_DERM + Rejected(resp.places, "non_dermatology")
                 \* a failed grid point is logged by gridSearchForState's catch
                 /\ unitFailed' = (unitFailed \/ ~resp.ok)
            /\ CountersInBound'
            /\ gp' = gp + 1
            /\ unitsStarted' = unitsStarted \cup { << si, "grid", gp + 1 >> }
            /\ net' = Track(net, CallEvents)
            /\ UNCHANGED << pc, si, ci, qi, pages, pageToken, allClinics, cityIds,
                            allClinicIds, di, lookups, clinics, files, statesFailed >>
            /\ UNCHANGED << silentFailure, pageRequests, cityReturned >>
            /\ UNCHANGED << inputVars, hitVars, classifyVars, uiVars, siteVars >>

\* The grid sweep is over: its identifiers go into allClinicIds and the city
\* search begins.
GridDone ==
    /\ script = "comprehensive" /\ pc = "grid" /\ gp = GridPoints
    /\ allClinicIds' = SetAddAll(allClinicIds, gridIds)
    /\ pc' = "city"
    /\ UNCHANGED << si, TOTAL_REQUESTS, gp, gridIds, ci, qi, pages, pageToken,
                    allClinics, cityIds, di, lookups, clinics, files,
                    statesFailed, httpCalls >>
    /\ UNCHANGED << inputVars, counters, historyVars, classifyVars, uiVars, siteVars >>

\* The accepted places of a successful city response (what textSearchCity
\* pushes to allClinics), tagged with the state they were returned for.
CityReturnedBy(stateIndex, ids) == { << stateIndex, ids[i] >> : i \in DOMAIN ids }

\* One page request of textSearchCity for the current city and query.
\* allClinics keeps the place_ids pushed so far, each once, in first-seen
\* order: that is all citySearchForState reads of it.
CityPage ==
    /\ script = "comprehensive" /\ pc = "city" /\ ci < NumCities
    /\ IF LimitReached(TOTAL_REQUESTS, maxRequests)
       THEN BudgetExceeded /\ UNCHANGED TOTAL_REQUESTS
       ELSE /\ TOTAL_REQUESTS' = TOTAL_REQUESTS + 1
            /\ httpCalls' = httpCalls + 1
            /\ \E resp \in TextResponses :
                 \* a failed city is logged by citySearchForState's catch
                 /\ unitFailed' = (unitFailed \/ ~resp.ok)
                 /\ net' = Track(net, CallEvents \o
                               (IF resp.ok /\ resp.nextPageToken
                                THEN TokenEvents ELSE << >>))
                 /\ cityReturned' =
                      IF resp.ok
                      THEN cityReturned \cup CityReturnedBy(si, AcceptedIds(resp.places))
                      ELSE cityReturned
                 /\ IF ~resp.ok
                    THEN \* throw: caught per city, the city's allClinics is lost
                         /\ ci' = ci + 1 /\ qi' = 0 /\ pages' = 0
                         /\ pageToken' = FALSE /\ allClinics' = << >>
                         /\ UNCHANGED << cityIds, counters >>
                    ELSE /\ REJECTED_NON_US' = REJECTED_NON_US + Rejected(resp.places, "non_us")
                         /\ REJECTED_NON_DERM' =
                              REJECTED_NON_DERM + Rejected(resp.places, "non_dermatology")
                         /\ IF resp.nextPageToken /\ pages + 1 < MaxPages
                            THEN \* the do-while goes round with the token
                                 /\ allClinics' = SetAddAll(allClinics, AcceptedIds(resp.places))
                                 /\ pages' = pages + 1 /\ pageToken' = TRUE
                                 /\ UNCHANGED << ci, qi, cityIds >>
                            ELSE IF qi + 1 < Len(textQueries)
                            THEN \* next query of the city
                                 /\ allClinics' = SetAddAll(allClinics, AcceptedIds(resp.places))
                                 /\ qi' = qi + 1 /\ pages' = 0 /\ pageToken' = FALSE
                                 /\ UNCHANGED << ci, cityIds >>
                            ELSE \* textSearchCity returns; next city
                                 /\ cityIds' =
                                      SetAddAll(cityIds,
                                        SetAddAll(allClinics, AcceptedIds(resp.places)))
                                 /\ allClinics' = << >>
                                 /\ ci' = ci + 1 /\ qi' = 0 /\ pages' = 0
                                 /\ pageToken' = FALSE
            /\ CountersInBound'
            /\ unitsStarted' = unitsStarted \cup { << si, "city", ci + 1 >> }
            /\ pageRequests' = IF pages = 0 THEN 1 ELSE pageRequests + 1
            /\ UNCHANGED << pc, si, gp, gridIds, allClinicIds, di, lookups,
                            clinics, files, statesFailed >>
            /\ UNCHANGED silentFailure
            /\ UNCHANGED << inputVars, hitVars, classifyVars, uiVars, siteVars >>

\* The city search is over: its identifiers go into allClinicIds and the
\* detail pass begins.
CityDone ==
    /\ script = "comprehensive" /\ pc = "city" /\ ci = NumCities
    /\ allClinicIds' = SetAddAll(allClinicIds, cityIds)
    /\ pc' = "detail"
    /\ UNCHANGED << si, TOTAL_REQUESTS, gp, gridIds, ci, qi, pages, pageToken,
                    allClinics, cityIds, di, lookups, clinics, files,
                    statesFailed, httpCalls >>
    /\ UNCHANGED << inputVars, counters, historyVars, classifyVars, uiVars, siteVars >>

\* A faulty detail pass that walks only what the grid sweep found.
DetailIdsGridOnly == gridIds

\* for (const placeId of Array.from(allClinicIds))
DetailIds == allClinicIds

\* One identifier of the detail pass.
DetailFetch ==
    /\ script = "comprehensive" /\ pc = "detail" /\ di < Len(DetailIds)
    /\ IF LimitReached(TOTAL_REQUESTS, maxRequests)
       THEN BudgetExceeded /\ UNCHANGED TOTAL_REQUESTS
       ELSE /\ TOTAL_REQUESTS' = TOTAL_REQUESTS + 1
            /\ httpCalls' = httpCalls + 1
            /\ \E resp \in DetailResponses(DetailIds[di + 1]) :
                 /\ lookups' = Append(lookups, [ id |-> DetailIds[di + 1], resp |-> resp ])
                 /\ REJECTED_NON_US' = REJECTED_NON_US + Rejected(resp.places, "non_us")
                 /\ REJECTED_NON_DERM' = REJECTED_NON_DERM + Rejected(resp.places, "non_dermatology")
                 /\ clinics' =
                      IF resp.ok /\ acceptedPlace[resp.places[1]]
                           /\ transformedPlace[resp.places[1]] # NoRecord
                      THEN Append(clinics, Entry(transformedPlace[resp.places[1]],
                                                 resp.places[1]))
                      ELSE clinics
                 \* a failed lookup is skipped: no else branch, and the catch
                 \* only rethrows the request-limit error
                 /\ unitFailed' = (unitFailed \/ ~resp.ok)
                 /\ silentFailure' = (silentFailure \/ ~resp.ok)
            /\ CountersInBound'
            /\ di' = di + 1
            /\ unitsStarted' = unitsStarted \cup { << si, "id", DetailIds[di + 1] >> }
            /\ net' = Track(net, CallEvents)
            /\ UNCHANGED << pc, si, gp, gridIds, ci, qi, pages, pageToken,
                            allClinics, cityIds, allClinicIds, files, statesFailed >>
            /\ UNCHANGED << pageRequests, cityReturned >>
            /\ UNCHANGED << inputVars, hitVars, classifyVars, uiVars, siteVars >>

\* The detail pass is over: the state's snapshot file is written and
\* collectStateData returns to main.
SaveState ==
    /\ script = "comprehensive" /\ pc = "detail" /\ di = Len(DetailIds)
    /\ files' = (CurrentState :> clinics) @@ files
    /\ pc' = "main"
    /\ UNCHANGED << si, TOTAL_REQUESTS, clinics, statesFailed, httpCalls >>
    /\ UNCHANGED << inputVars, discoveryVars, counters, historyVars, classifyVars, uiVars, siteVars >>

-----------------------------------------------------------------------------
(* The run: fast and all-states scripts *)

\* One text query for the current city: makeRequest, fetch, parse.
CityQuery ==
    /\ script \in { "fast", "allStates" } /\ pc = "query" /\ ci < NumCities
    /\ TOTAL_REQUESTS' = TOTAL_REQUESTS + 1
    /\ IF LimitReachedAfterIncrement(TOTAL_REQUESTS, maxRequests)
       THEN BudgetExceeded
       ELSE /\ httpCalls' = httpCalls + 1
            /\ \E resp \in NearbyResponses :
                 /\ clinics' = IF resp.ok
                               THEN MapSetAll(clinics, ParsedEntries(resp.places, script))
                               ELSE clinics
                 /\ REJECTED_NON_US' =
                      REJECTED_NON_US + ParseRejected(resp.places, script, "non_us")
                 /\ REJECTED_NON_DERM' =
                      REJECTED_NON_DERM
                        + ParseRejected(resp.places, script, "non_dermatology")
                 \* a fetch that throws is logged by the catch; a response that
                 \* is not ok is skipped with no else branch
                 /\ unitFailed' = (unitFailed \/ ~resp.ok)
                 /\ \E thrown \in BOOLEAN :
                      silentFailure' = (silentFailure \/ (~resp.ok /\ ~thrown))
            /\ CountersInBound'
            /\ IF qi + 1 < Len(cityQueries)
               THEN qi' = qi + 1 /\ ci' = ci
               ELSE qi' = 0 /\ ci' = ci + 1
            /\ unitsStarted' = unitsStarted \cup { << si, "city", ci + 1 >> }
            /\ net' = Track(net, CallEvents)
            /\ UNCHANGED << pc, si, gp, gridIds, pages, pageToken, allClinics,
                            cityIds, allClinicIds, di, lookups, files, statesFailed >>
            /\ UNCHANGED << pageRequests, cityReturned >>
            /\ UNCHANGED << inputVars, hitVars, classifyVars, uiVars, siteVars >>

\* Every city is done: Array.from(clinics.values()) is written.  The
\* all-states script writes nothing for an empty array and reports the state
\* as failed.
SaveCities ==
    /\ script \in { "fast", "allStates" } /\ pc = "query" /\ ci = NumCities
    /\ IF script = "allStates" /\ Len(clinics) = 0
       THEN /\ statesFailed' = Append(statesFailed, CurrentState)
            /\ UNCHANGED files
       ELSE /\ files' = (CurrentState :> clinics) @@ files
            /\ UNCHANGED statesFailed
    /\ pc' = "main"
    /\ UNCHANGED << si, TOTAL_REQUESTS, clinics, httpCalls >>
    /\ UNCHANGED << inputVars, discoveryVars, counters, historyVars, classifyVars, uiVars, siteVars >>

Next ==
    \/ SkipUnknownState
    \/ StartState
    \/ Finish
    \/ GridPoint
    \/ GridDone
    \/ CityPage
    \/ CityDone
    \/ DetailFetch
    \/ SaveState
    \/ CityQuery
    \/ SaveCities

Spec == Init /\ [][Next]_vars

\* The comprehensive script collecting one state, running on: a step that can
\* be taken is eventually taken.
InitComprehensive ==
    Init /\ script = "comprehensive" /\ statesToProcess = << "CA" >>

NextComprehensive ==
    \/ StartState
    \/ Finish
    \/ GridPoint
    \/ GridDone
    \/ CityPage
    \/ CityDone
    \/ DetailFetch
    \/ SaveState

FairComprehensive ==
    InitComprehensive /\ [][NextComprehensive]_vars /\ WF_vars(NextComprehensive)

-----------------------------------------------------------------------------
(* The clinics list page: values *)

\* A missing number (rating, user_rating_count): null / undefined.
MISSING == -1

\* v || 0
OrZero(v) == IF v = MISSING THEN 0 ELSE v

RECURSIVE TrimLeft(_)
TrimLeft(s) ==
    IF Len(s) > 0 /\ IsSpace(CharAt(s, 1))
    THEN TrimLeft(SubSeq(s, 2, Len(s))) ELSE s

RECURSIVE TrimRight(_)
TrimRight(s) ==
    IF Len(s) > 0 /\ IsSpace(CharAt(s, Len(s)))
    THEN TrimRight(SubSeq(s, 1, Len(s) - 1)) ELSE s

\* String.prototype.trim
trim(s) == TrimRight(TrimLeft(s))

\* /^\d{5}$/.test(trimmedQuery)
isZipCode(s) == Len(s) = 5 /\ \A i \in 1..5 : CharAt(s, i) \in Digits

\* The characters of the lower-cased names, in UTF-16 code unit order.
CodeOrder == " 0123456789abcdefghijklmnopqrstuvwxyz"
CharCode(c) == CHOOSE k \in 1..Len(CodeOrder) : CharAt(CodeOrder, k) = c

\* aVal < bVal on strings: by code units, a proper prefix first
RECURSIVE StrLess(_, _)
StrLess(a, b) ==
    IF Len(b) = 0 THEN FALSE
    ELSE IF Len(a) = 0 THEN TRUE
    ELSE IF CharAt(a, 1) = CharAt(b, 1)
         THEN StrLess(SubSeq(a, 2, Len(a)), SubSeq(b, 2, Len(b)))
    ELSE CharCode(CharAt(a, 1)) < CharCode(CharAt(b, 1))

\* Array.prototype.sort(compareFn): stable; cmp[<<a, b>>] < 0 puts a first.
RECURSIVE InsertSorted(_, _, _)
InsertSorted(ys, x, cmp) ==
    IF Len(ys) = 0 THEN << x >>
    ELSE IF cmp[<< x, Head(ys) >>] < 0 THEN << x >> \o ys
    ELSE << Head(ys) >> \o InsertSorted(Tail(ys), x, cmp)

RECURSIVE SortInto(_, _, _)
SortInto(done, xs, cmp) ==
    IF Len(xs) = 0 THEN done
    ELSE SortInto(InsertSorted(done, Head(xs), cmp), Tail(xs), cmp)

ArraySort(xs, cmp) == SortInto(<< >>, xs, cmp)

-----------------------------------------------------------------------------
(* The clinics list page: the loaded records *)

\* A clinic record as /api/clinics returns it; every optional field missing.
\* current_open_now is only ever tested with === true: null counts as FALSE.
BaseClinic ==
    [ place_id |-> "c0", display_name |-> NULL, formatted_address |-> NULL,
      city |-> NULL, state_code |-> NULL, postal_code |-> NULL,
      types |-> << >>, primary_type |-> NULL,
      rating |-> MISSING, user_rating_count |-> MISSING,
      website |-> NULL, phone |-> NULL,
      accessibility_options |-> NoRecord, parking_options |-> NoRecord,
      current_open_now |-> FALSE, opening_hours |-> NoRecord,
      location |-> NoRecord ]

\* Ratings are kept in tenths: 40 is 4.0.
SunsetDerm ==
    [ BaseClinic EXCEPT
        !.place_id = "c1", !.display_name = "Sunset Dermatology",
        !.formatted_address = "100 Sunset Blvd, Beverly Hills, CA 90210",
        !.city = "Beverly Hills", !.state_code = "CA", !.postal_code = "90210",
        !.types = << "doctor", "health" >>, !.primary_type = "doctor",
        !.rating = 40, !.user_rating_count = 120,
        !.website = "https://sunsetderm.com", !.phone = "(310) 555-0100",
        !.accessibility_options = [ wheelchair_accessible_entrance |-> TRUE ],
        !.parking_options = [ free_parking_lot |-> TRUE ],
        !.current_open_now = TRUE,
        !.location = [ lat |-> 34, lng |-> -118 ] ]

BetaSkinNY ==
    [ BaseClinic EXCEPT
        !.place_id = "c2", !.display_name = "beta skin clinic",
        !.formatted_address = "90210 Main St, New York, NY 10001",
        !.city = "New York", !.state_code = "NY", !.postal_code = "10001",
        !.types = << "skin_care_clinic" >>, !.primary_type = "skin_care_clinic",
        !.rating = 40, !.user_rating_count = 7,
        !.website = "  ",
        !.parking_options = [ free_parking_lot |-> FALSE ],
        !.opening_hours = [ open_now |-> TRUE ],
        !.location = [ lat |-> 40, lng |-> -118 ] ]

BetaSkinCA ==
    [ BaseClinic EXCEPT
        !.place_id = "c3", !.display_name = "Beta Skin Clinic",
        !.formatted_address = "5 Market St, San Francisco, CA 94103",
        !.city = "San Francisco", !.state_code = "CA", !.postal_code = "94103",
        !.types = << "doctor" >>,
        !.rating = 45, !.user_rating_count = 7,
        !.phone = "(415) 555-0199",
        !.accessibility_options = [ wheelchair_accessible_entrance |-> FALSE ],
        !.location = [ lat |-> 37, lng |-> -118 ] ]

\* A record the transformer built from a place without coordinates.
AlphaDerm ==
    [ BaseClinic EXCEPT
        !.place_id = "c4", !.display_name = "Alpha Derm",
        !.formatted_address = "12 Elm St, Plano, TX 75001",
        !.city = "Plano", !.state_code = "TX", !.postal_code = "75001",
        !.website = "https://alphaderm.example", !.phone = "  " ]

\* A record with nothing but its identifier and coordinates.
Unnamed ==
    [ BaseClinic EXCEPT !.place_id = "c5", !.location = [ lat |-> 34, lng |-> -118 ] ]

ClinicLists ==
    { << >>,
      << SunsetDerm, BetaSkinNY >>,
      << BetaSkinNY, BetaSkinCA, SunsetDerm >>,
      << BetaSkinCA, Unnamed, BetaSkinNY, SunsetDerm >>,
      << SunsetDerm, AlphaDerm, BetaSkinCA >> }

\* The queries typed into the search box (one line of text).
Queries ==
    { "", "   ", "90210", " 90210 ", "9021", "derm", "SKIN", "ca",
      "doctor health", "zzz" }

\* Reference points of a location search.
Points == { [ lat |-> 34, lng |-> -118 ], [ lat |-> 38, lng |-> -118 ] }

\* filters = {}: every option undefined (falsy).
NoFilters ==
    [ rating_min |-> 0, has_website |-> FALSE, has_phone |-> FALSE,
      wheelchair_accessible |-> FALSE, free_parking |-> FALSE,
      open_now |-> FALSE, states |-> << >>, sort_by |-> NULL,
      sort_order |-> NULL ]

FlagSets ==
    { {}, { "has_website" }, { "has_phone" }, { "wheelchair_accessible" },
      { "free_parking" }, { "open_now" },
      { "has_website", "has_phone", "wheelchair_accessible", "free_parking",
        "open_now" } }

SortSamples ==
    { << NULL, NULL >>, << "rating", "desc" >>, << "rating", "asc" >>,
      << "reviews", NULL >>, << "name", "asc" >>, << "name", "desc" >> }

FilterOptions(m, fs, st, so) ==
    [ rating_min |-> m, has_website |-> "has_website" \in fs,
      has_phone |-> "has_phone" \in fs,
      wheelchair_accessible |-> "wheelchair_accessible" \in fs,
      free_parking |-> "free_parking" \in fs, open_now |-> "open_now" \in fs,
      states |-> st, sort_by |-> so[1], sort_order |-> so[2] ]

\* The filter settings tried: every predicate alone and combined without a
\* sort key, and every sort key over the whole list and over a filtered one.
FilterSamples ==
    { FilterOptions(m, fs, st, << NULL, NULL >>) :
        m \in { 0, 40, 45 }, fs \in FlagSets, st \in { << >>, << "CA", "TX" >> } }
    \cup
    { FilterOptions(m, fs, << >>, so) :
        m \in { 0, 40 }, fs \in { {}, { "has_phone" } }, so \in SortSamples }

-----------------------------------------------------------------------------
(* The clinics list page: handleSearch, handleLocationSearch, applyFilters *)

\* The template literal of handleSearch, lower-cased.
searchableText(clinic) ==
    toLowerCase(
        "\n        " \o OrEmpty(clinic.display_name) \o " "
     \o "\n        " \o OrEmpty(clinic.formatted_address) \o " "
     \o "\n        " \o OrEmpty(clinic.city)
     \o "\n        " \o OrEmpty(clinic.state_code)
     \o "\n        " \o OrEmpty(join(clinic.types, " "))
     \o "\n        " \o OrEmpty(clinic.primary_type)
     \o "\n      ")

SampleClinics == UNION { Range(l) : l \in ClinicLists }
searchableTextOf == [ c \in SampleClinics |-> searchableText(c) ]

\* A faulty search without the postal-code branch.
searchResultTextOnly(list, query) ==
    IF query = "" \/ trim(query) = "" THEN list
    ELSE LET Keep(clinic) ==
                 Includes(searchableText(clinic), toLowerCase(trim(query)))
         IN  SelectSeq(list, Keep)

\* handleSearch: the list handed to setFilteredClinics
searchResult(list, query) ==
    IF query = "" \/ trim(query) = "" THEN list
    ELSE LET trimmedQuery == trim(query)
             lowerQuery == toLowerCase(trimmedQuery)
             Keep(clinic) ==
                 IF isZipCode(trimmedQuery)
                 THEN clinic.postal_code = trimmedQuery
                 ELSE Includes(IF clinic \in SampleClinics
                               THEN searchableTextOf[clinic]
                               ELSE searchableText(clinic), lowerQuery)
         IN  SelectSeq(list, Keep)

Abs(n) == IF n < 0 THEN 0 - n ELSE n

\* calculateDistance of @/lib/utils: the great-circle distance, here between
\* two points of one meridian, in km (111 km to the degree of latitude).
calculateDistance(a, b) == 111 * Abs(a.lat - b.lat)

\* { ...clinic, distance: calculateDistance(...) }
withDistance(clinic, point) ==
    [ f \in DOMAIN clinic \cup { "distance" } |->
        IF f = "distance" THEN calculateDistance(point, clinic.location)
        ELSE clinic[f] ]

\* clinic.location.lat on a record whose location is null: TypeError
locationThrows(list) == \E i \in DOMAIN list : list[i].location = NoRecord

\* (a, b) => a.distance - b.distance
compareDistance(xs) ==
    [ p \in Range(xs) \X Range(xs) |-> p[1].distance - p[2].distance ]

\* handleLocationSearch: the list handed to setFilteredClinics
locationResult(list, point) ==
    LET clinicsWithDistance == [ i \in DOMAIN list |-> withDistance(list[i], point) ]
    IN  ArraySort(clinicsWithDistance, compareDistance(clinicsWithDistance))

\* aVal / bVal of applyFilters' comparator
sortValue(clinic, by) ==
    CASE by = "rating" -> OrZero(clinic.rating)
      [] by = "reviews" -> OrZero(clinic.user_rating_count)
      [] by = "name" -> toLowerCase(OrEmpty(clinic.display_name))

valueLess(x, y, by) == IF by = "name" THEN StrLess(x, y) ELSE x < y

\* A faulty comparator that ignores the requested order.
compareClinicsAscending(a, b, by, order) ==
    IF by \notin { "rating", "reviews", "name" } THEN 0
    ELSE IF valueLess(sortValue(a, by), sortValue(b, by), by) THEN -1
    ELSE IF valueLess(sortValue(b, by), sortValue(a, by), by) THEN 1 ELSE 0

\* The comparator handed to filtered.sort
compareClinics(a, b, by, order) ==
    IF by \notin { "rating", "reviews", "name" } THEN 0
    ELSE LET aVal == sortValue(a, by)
             bVal == sortValue(b, by)
         IN  IF order = "asc"
             THEN IF valueLess(aVal, bVal, by) THEN -1
                  ELSE IF valueLess(bVal, aVal, by) THEN 1 ELSE 0
             ELSE IF valueLess(bVal, aVal, by) THEN -1
                  ELSE IF valueLess(aVal, bVal, by) THEN 1 ELSE 0

compareFn(xs, f) ==
    [ p \in Range(xs) \X Range(xs) |->
        compareClinics(p[1], p[2], f.sort_by, f.sort_order) ]

\* A faulty chain that knows only the rating and excludes the boundary.
filterChainExclusive(list, f) ==
    LET RatingOk(c) == OrZero(c.rating) > f.rating_min
    IN  SelectSeq(list, RatingOk)

\* The chain of filtered = filtered.filter(...) of applyFilters
filterChain(list, f) ==
    LET RatingOk(c) == OrZero(c.rating) >= f.rating_min
        HasWebsite(c) == Truthy(c.website) /\ trim(c.website) # ""
        HasPhone(c) == Truthy(c.phone) /\ trim(c.phone) # ""
        Wheelchair(c) ==
            /\ c.accessibility_options # NoRecord
            /\ c.accessibility_options.wheelchair_accessible_entrance
        FreeParking(c) ==
            c.parking_options # NoRecord /\ c.parking_options.free_parking_lot
        OpenNow(c) ==
            \/ c.current_open_now
            \/ (c.opening_hours # NoRecord /\ c.opening_hours.open_now)
        InStates(c) == Truthy(c.state_code) /\ c.state_code \in Range(f.states)
        f1 == IF f.rating_min # 0 THEN SelectSeq(list, RatingOk) ELSE list
        f2 == IF f.has_website THEN SelectSeq(f1, HasWebsite) ELSE f1
        f3 == IF f.has_phone THEN SelectSeq(f2, HasPhone) ELSE f2
        f4 == IF f.wheelchair_accessible THEN SelectSeq(f3, Wheelchair) ELSE f3
        f5 == IF f.free_parking THEN SelectSeq(f4, FreeParking) ELSE f4
        f6 == IF f.open_now THEN SelectSeq(f5, OpenNow) ELSE f5
    IN  IF Len(f.states) > 0 THEN SelectSeq(f6, InStates) ELSE f6

\* Some if (filters.x) branch replaces `filtered` by the result of a filter().
anyFilterEnabled(f) ==
    \/ f.rating_min # 0 \/ f.has_website \/ f.has_phone
    \/ f.wheelchair_accessible \/ f.free_parking \/ f.open_now
    \/ Len(f.states) > 0

\* applyFilters: the list handed to setFilteredClinics
filterResult(list, f) ==
    LET filtered == filterChain(list, f)
    IN  IF Truthy(f.sort_by) THEN ArraySort(filtered, compareFn(filtered, f))
        ELSE filtered

\* A faulty applyFilters that works on the clinics array itself.
workingArrayShared == "clinics"

\* let filtered = [...clinics]: applyFilters works on a copy
workingArray == "copy"

-----------------------------------------------------------------------------
(* The clinics list page: the component *)

\* loadClinics has set clinics and filteredClinics to the loaded array.
InitUI ==
    /\ RunIdle /\ REJECTED_NON_US = 0 /\ REJECTED_NON_DERM = 0
    /\ ClassifyIdle
    /\ loadedClinics \in ClinicLists
    /\ pageClinics = loadedClinics /\ filteredClinics = loadedClinics
    /\ sharesArray = TRUE
    /\ filters = NoFilters
    /\ lastOp = "load" /\ lastQuery = "" /\ lastPoint = NoRecord /\ threw = FALSE
    /\ SiteIdle

otherVars == << runVars, counters, classifyVars, siteVars >>

HandleSearch ==
    \E query \in Queries :
        /\ filteredClinics' = searchResult(pageClinics, query)
        \* an empty query hands over the clinics array itself
        /\ sharesArray' = (query = "" \/ trim(query) = "")
        /\ lastOp' = "search" /\ lastQuery' = query
        /\ lastPoint' = NoRecord /\ threw' = FALSE
        /\ UNCHANGED << pageClinics, filters, loadedClinics, otherVars >>

HandleLocationSearch ==
    \E point \in Points :
        /\ IF locationThrows(pageClinics)
           THEN threw' = TRUE /\ UNCHANGED << filteredClinics, sharesArray >>
           ELSE /\ threw' = FALSE
                /\ filteredClinics' = locationResult(pageClinics, point)
                /\ sharesArray' = FALSE
        /\ lastOp' = "location" /\ lastPoint' = point /\ lastQuery' = ""
        /\ UNCHANGED << pageClinics, filters, loadedClinics, otherVars >>

\* FilterPanel's onFilterChange
SetFilters ==
    \E f \in FilterSamples :
        /\ filters' = f
        /\ lastOp' = "setFilters" /\ lastQuery' = "" /\ lastPoint' = NoRecord
        /\ threw' = FALSE
        /\ UNCHANGED << pageClinics, filteredClinics, sharesArray, loadedClinics,
                        otherVars >>

\* applyFilters.  filtered.sort works in place: on the copy, or on whatever a
\* filter() returned.
ApplyFilters ==
    LET onClinics == workingArray = "clinics" /\ ~anyFilterEnabled(filters)
        result == filterResult(pageClinics, filters)
    IN  /\ filteredClinics' = result
        /\ pageClinics' = IF onClinics THEN result ELSE pageClinics
        /\ sharesArray' = onClinics
        /\ lastOp' = "filter" /\ lastQuery' = "" /\ lastPoint' = NoRecord
        /\ threw' = FALSE
        /\ UNCHANGED << filters, loadedClinics, otherVars >>

NextUI ==
    \/ HandleSearch
    \/ HandleLocationSearch
    \/ SetFilters
    \/ ApplyFilters

SpecUI == InitUI /\ [][NextUI]_vars

-----------------------------------------------------------------------------
(* The clinics list page: loading *)

\* Loads one page view may start.
MaxLoads == 2

\* The state and city parameters of the URL.
ParamSamples ==
    { [ state |-> NULL, city |-> NULL ],
      [ state |-> "CA", city |-> NULL ],
      [ state |-> "CA", city |-> "San Francisco" ],
      [ state |-> "WY", city |-> NULL ] }

\* The records the list endpoint serves.
ListedClinics == << SunsetDerm, BetaSkinNY, BetaSkinCA, AlphaDerm >>

\* /api/clinics?per_page=5000&state=..&city=..: the records of the state and
\* city asked for.
ListFor(params) ==
    LET Match(c) ==
            /\ Truthy(params.state) => c.state_code = params.state
            /\ Truthy(params.city) => c.city = params.city
    IN  SelectSeq(ListedClinics, Match)

\* How a fetch of the list ends: a body with clinics, a body without (an
\* error object), or a rejected fetch / unparsable body.
FetchKinds == { "ok", "noClinics", "threw" }

\* const loadedClinics = data.clinics || []
ClinicsOfBody(kind, params) == IF kind = "ok" THEN ListFor(params) ELSE << >>

\* The filter settings the panel hands to onFilterChange.
PanelFilters ==
    { NoFilters,
      FilterOptions(45, {}, << >>, << NULL, NULL >>),
      FilterOptions(0, { "has_phone" }, << >>, << NULL, NULL >>),
      FilterOptions(0, {}, << "CA", "TX" >>, << NULL, NULL >>),
      FilterOptions(0, {}, << >>, << "name", "asc" >>) }

\* What the results area renders in grid view.
Shown ==
    IF loading THEN "placeholder"
    ELSE IF Len(filteredClinics) = 0 THEN "empty"
    ELSE "results"

\* The component is mounted: useState initial values, first render done, its
\* effects not yet run.
InitPage ==
    /\ RunIdle /\ REJECTED_NON_US = 0 /\ REJECTED_NON_DERM = 0
    /\ ClassifyIdle
    /\ pageClinics = << >> /\ filteredClinics = << >> /\ sharesArray = FALSE
    /\ filters = NoFilters /\ loadedClinics = << >>
    /\ lastOp = "mount" /\ lastQuery = "" /\ lastPoint = NoRecord /\ threw = FALSE
    /\ loading = TRUE /\ navParams \in ParamSamples
    /\ effectsPending = TRUE /\ depsAtEffect = NoRecord
    /\ pending = {} /\ fetchesStarted = 0 /\ outcomes = << >>
    /\ filtersChanged = FALSE
    /\ StoreIdle

pageOtherVars == << runVars, counters, classifyVars, storeVars >>

\* The effects of a render: the only effect depends on [stateParam, cityParam]
\* and calls loadClinics, which runs up to its awaited fetch.
RunEffects ==
    /\ effectsPending
    /\ effectsPending' = FALSE
    /\ IF depsAtEffect # navParams
       THEN /\ loading' = TRUE
            /\ pending' = pending \cup
                 { [ id |-> fetchesStarted + 1, params |-> navParams ] }
            /\ fetchesStarted' = fetchesStarted + 1
            /\ depsAtEffect' = navParams
       ELSE UNCHANGED << loading, pending, fetchesStarted, depsAtEffect >>
    /\ UNCHANGED << navParams, outcomes, filtersChanged, uiVars, pageOtherVars >>

\* The URL's state / city parameters change.
Navigate ==
    /\ fetchesStarted < MaxLoads /\ ~effectsPending
    /\ \E p \in ParamSamples \ { navParams } : navParams' = p
    /\ effectsPending' = TRUE
    /\ filtersChanged' = FALSE
    /\ lastOp' = "navigate"
    /\ UNCHANGED << loading, depsAtEffect, pending, fetchesStarted, outcomes >>
    /\ UNCHANGED << pageClinics, filteredClinics, sharesArray, filters,
                    loadedClinics, lastQuery, lastPoint, threw, pageOtherVars >>

\* A fetch of loadClinics settles: the rest of its try, its catch and its
\* finally.
FetchSettles ==
    \E f \in pending, kind \in FetchKinds :
        /\ pending' = pending \ { f }
        /\ outcomes' = Append(outcomes, [ id |-> f.id, params |-> f.params,
                                          kind |-> kind ])
        /\ IF kind = "threw"
           THEN UNCHANGED << pageClinics, filteredClinics, sharesArray,
                             loadedClinics >>
           ELSE /\ pageClinics' = ClinicsOfBody(kind, f.params)
                /\ filteredClinics' = ClinicsOfBody(kind, f.params)
                /\ loadedClinics' = ClinicsOfBody(kind, f.params)
                /\ sharesArray' = TRUE
        /\ loading' = FALSE
        /\ lastOp' = "load"
        /\ UNCHANGED << navParams, effectsPending, depsAtEffect, fetchesStarted,
                        filtersChanged >>
        /\ UNCHANGED << filters, lastQuery, lastPoint, threw, pageOtherVars >>

\* The filter panel calls onFilterChange = setFilters; the page renders again.
PanelSetFilters ==
    /\ \E f \in PanelFilters \ { filters } : filters' = f
    /\ effectsPending' = TRUE
    /\ filtersChanged' = TRUE
    /\ lastOp' = "setFilters"
    /\ UNCHANGED << loading, navParams, depsAtEffect, pending, fetchesStarted,
                    outcomes >>
    /\ UNCHANGED << pageClinics, filteredClinics, sharesArray, loadedClinics,
                    lastQuery, lastPoint, threw, pageOtherVars >>

NextPage ==
    \/ RunEffects
    \/ Navigate
    \/ FetchSettles
    \/ PanelSetFilters

SpecPage == InitPage /\ [][NextPage]_vars

\* Nothing is left to happen until the user acts again.
PageSettled == ~effectsPending /\ pending = {}

\* C21: when the list fetch fails the page shows the generic error message,
\* not the empty-results message and not the records of an earlier load.
C21_FailureShowsError ==
    (~loading /\ Len(outcomes) > 0 /\ outcomes[Len(outcomes)].kind = "threw")
        => Shown = "error"

\* C27: after a change of the filter settings the displayed list ends up
\* being the filter pipeline's result for the loaded list and the new
\* settings.
C27_FiltersApplied ==
    (filtersChanged /\ PageSettled /\ ~loading)
        => filteredClinics = filterResult(pageClinics, filters)

\* C28: once two overlapping list fetches have both delivered a list, the
\* loaded and the displayed list are the response for the latest parameters.
C28_LatestParamsWin ==
    (/\ fetchesStarted >= 2 /\ PageSettled
     /\ \A i \in DOMAIN outcomes : outcomes[i].kind = "ok")
        => /\ pageClinics = ListFor(navParams)
           /\ filteredClinics = ListFor(navParams)

-----------------------------------------------------------------------------
(* The store: the clinics table *)

\* A row of the clinics table, with the columns the jobs read or write.
Row(id, city, state, status, rating, count, featured) ==
    [ place_id |-> id, city |-> city, state_code |-> state,
      business_status |-> status, rating |-> rating,
      user_rating_count |-> count, featured_clinic |-> featured ]

AustinA == Row("a1", "Austin", "TX", "OPERATIONAL", 48, 200, TRUE)
AustinB == Row("a2", "Austin", "TX", "OPERATIONAL", 48, 200, FALSE)
AustinC == Row("a3", "Austin", "TX", "OPERATIONAL", 45, 900, TRUE)
AustinClosed == Row("a4", "Austin", "TX", "CLOSED_TEMPORARILY", 50, 10, TRUE)
DallasUnrated == Row("d1", "Dallas", "TX", "OPERATIONAL", MISSING, MISSING, FALSE)
PortlandOR == Row("p1", "Portland", "OR", "OPERATIONAL", 40, 5, FALSE)
PortlandME == Row("p2", "Portland", "ME", "OPERATIONAL", 41, 5, FALSE)
NoCity == Row("n1", NULL, "CA", "OPERATIONAL", 49, 10, FALSE)
Toronto == Row("t1", "Toronto", "ON", "OPERATIONAL", 47, 30, FALSE)
NoState == Row("x1", "London", NULL, "OPERATIONAL", 46, 12, TRUE)

\* The contents of the table a job may find; place_id is its key.
Stores ==
    { << >>,
      << AustinA, AustinB, AustinC >>,
      << AustinC, AustinClosed, AustinA, DallasUnrated >>,
      << PortlandOR, PortlandME, AustinA, AustinC, NoCity >>,
      << Toronto, PortlandOR, NoState, AustinA, AustinC >>,
      << AustinA, PortlandOR >>,
      << Toronto, NoState >> }

Jobs == { "stats", "feature", "cleanup", "detailServer", "detailClient" }

storeOtherVars == << runVars, counters, classifyVars, uiVars, loadVars >>

-----------------------------------------------------------------------------
(* The stats endpoint *)

\* The route's VALID_US_STATES
StatsValidStates == FIFTY_STATES_AND_DC

\* A faulty query without the .in('state_code', ...) filter.
statsDataUnfiltered(rows) == rows

\* .from('clinics').select('state_code').in('state_code', VALID_US_STATES)
statsData(rows) ==
    LET Valid(r) == r.state_code \in StatsValidStates
    IN  SelectSeq(rows, Valid)

\* data.forEach: stateCounts[state] = (stateCounts[state] || 0) + 1, the keys
\* kept in insertion order
RECURSIVE countStates(_, _)
countStates(stateCounts, data) ==
    IF Len(data) = 0 THEN stateCounts
    ELSE LET state == Head(data).state_code
             seen == \E i \in DOMAIN stateCounts : stateCounts[i].code = state
             next ==
                 IF ~Truthy(state) THEN stateCounts
                 ELSE IF seen
                 THEN [ i \in DOMAIN stateCounts |->
                          IF stateCounts[i].code = state
                          THEN [ stateCounts[i] EXCEPT !.clinicCount = @ + 1 ]
                          ELSE stateCounts[i] ]
                 ELSE Append(stateCounts, [ code |-> state, clinicCount |-> 1 ])
         IN  countStates(next, Tail(data))

\* (a, b) => b.clinicCount - a.clinicCount
statsCompare(xs) ==
    [ p \in Range(xs) \X Range(xs) |-> p[2].clinicCount - p[1].clinicCount ]

\* Object.values(stateCounts).reduce((sum, count) => sum + count, 0)
RECURSIVE sumCounts(_)
sumCounts(stateCounts) ==
    IF Len(stateCounts) = 0 THEN 0
    ELSE Head(stateCounts).clinicCount + sumCounts(Tail(stateCounts))

\* The body of the stats response (its per-state entries without the name).
statsBody(rows) ==
    LET stateCounts == countStates(<< >>, statsData(rows))
        states == ArraySort(stateCounts, statsCompare(stateCounts))
    IN  [ ok |-> TRUE, states |-> states,
          totalClinics |-> sumCounts(stateCounts),
          totalStates |-> Len(states) ]

\* GET /api/stats
StatsGet ==
    /\ job = "stats" /\ jpc = "start"
    /\ \E failed \in BOOLEAN :
         /\ storeError' = failed
         /\ reply' = IF failed THEN [ ok |-> FALSE, status |-> 500 ]
                     ELSE statsBody(store)
    /\ jpc' = "done"
    /\ UNCHANGED << store, job, jobArgs, jobLocals, store0, issued, storeOtherVars >>

-----------------------------------------------------------------------------
(* The auto-feature script *)

DEFAULT_TOP_COUNT == 10

\* The batch size of markClinicsAsFeatured (100 in the script), scaled to the
\* size of the sample tables.
BATCH_SIZE == 2

\* --top=N, or the default
TopCounts == { 1, 2, DEFAULT_TOP_COUNT }

\* A faulty main that takes every run for a live run.
LiveModeAlways(args) == TRUE

\* !dryRun
LiveMode(args) == ~args.dryRun

\* getAllCitiesWithClinics: the unique city/state pairs of the operational
\* rows that have both, in first-seen order.
RECURSIVE uniqueCities(_, _)
uniqueCities(cityStateList, data) ==
    IF Len(data) = 0 THEN cityStateList
    ELSE LET pair == [ city |-> Head(data).city, state |-> Head(data).state_code ]
         IN  uniqueCities(IF pair \in Range(cityStateList) THEN cityStateList
                          ELSE Append(cityStateList, pair),
                          Tail(data))

getAllCitiesWithClinics(rows) ==
    LET Wanted(r) ==
            /\ r.business_status = "OPERATIONAL"
            /\ r.city # NULL /\ r.state_code # NULL
    IN  uniqueCities(<< >>, SelectSeq(rows, Wanted))

\* processAllCities: byState, then Object.entries(byState) walked state by
\* state, each state's cities in their order.
RECURSIVE citiesByState(_, _)
citiesByState(cities, left) ==
    IF Len(left) = 0 THEN << >>
    ELSE LET state == Head(left).state
             Same(c) == c.state = state
             Other(c) == c.state # state
         IN  SelectSeq(cities, Same) \o citiesByState(cities, SelectSeq(left, Other))

\* The rows getTopClinicsForCity selects before ordering.
ratedInCity(rows, city, state) ==
    { r \in Range(rows) :
        /\ r.city = city /\ r.state_code = state
        /\ r.business_status = "OPERATIONAL"
        /\ r.rating # MISSING }

\* .order('rating', desc).order('user_rating_count', desc): a comes before b.
\* Every rated row of the sample tables has a review count.
orderedBefore(a, b) ==
    \/ a.rating > b.rating
    \/ (a.rating = b.rating /\ a.user_rating_count > b.user_rating_count)

\* getTopClinicsForCity: the place_ids of the first topCount rows in that
\* order; rows that tie may come in any order.
getTopClinicsForCity(rows, city, state, topCount) ==
    LET rated == ratedInCity(rows, city, state)
        k == IF Cardinality(rated) < topCount THEN Cardinality(rated) ELSE topCount
        InOrder(q) ==
            /\ \A i, j \in 1..k : i < j => (q[i] # q[j] /\ ~orderedBefore(q[j], q[i]))
            /\ \A r \in rated \ Range(q) : \A i \in 1..k : ~orderedBefore(r, q[i])
    IN  { [ i \in 1..k |-> q[i].place_id ] : q \in { f \in [ 1..k -> rated ] : InOrder(f) } }

\* A faulty reset that updates nothing.
resetRowsNone(rows) == rows

\* .update({ featured_clinic: false }).eq('featured_clinic', true)
resetRows(rows) ==
    [ i \in DOMAIN rows |-> [ rows[i] EXCEPT !.featured_clinic = FALSE ] ]

\* .update({ featured_clinic: true }).in('place_id', batch)
markRows(rows, batch) ==
    [ i \in DOMAIN rows |->
        IF rows[i].place_id \in Range(batch)
        THEN [ rows[i] EXCEPT !.featured_clinic = TRUE ]
        ELSE rows[i] ]

\* main up to the end of its five-second wait.
FeatureBegin ==
    /\ job = "feature" /\ jpc = "start"
    /\ jpc' = IF LiveMode(jobArgs) THEN "reset" ELSE "cities"
    /\ jobLocals' = [ cities |-> << >>, citiesProcessed |-> 0,
                      allFeaturedIds |-> << >>, i |-> 0 ]
    /\ UNCHANGED << store, job, jobArgs, reply, store0, storeError, issued,
                    storeOtherVars >>

\* resetAllFeaturedStatus; an error is thrown on to main().catch.
FeatureReset ==
    /\ job = "feature" /\ jpc = "reset"
    /\ issued' = Append(issued, [ op |-> "reset" ])
    /\ \E failed \in BOOLEAN :
         IF failed
         THEN storeError' = TRUE /\ jpc' = "exit" /\ UNCHANGED store
         ELSE store' = resetRows(store) /\ jpc' = "cities" /\ UNCHANGED storeError
    /\ UNCHANGED << job, jobArgs, jobLocals, reply, store0, storeOtherVars >>

\* processAllCities: getAllCitiesWithClinics and the grouping by state.
FeatureCities ==
    /\ job = "feature" /\ jpc = "cities"
    /\ \E failed \in BOOLEAN :
         IF failed
         THEN storeError' = TRUE /\ jpc' = "exit" /\ UNCHANGED jobLocals
         ELSE LET cities == getAllCitiesWithClinics(store)
                  walked == citiesByState(cities, cities)
              IN  /\ jobLocals' = [ jobLocals EXCEPT !.cities = walked ]
                  /\ jpc' = IF Len(walked) = 0 THEN "mark" ELSE "top"
                  /\ UNCHANGED storeError
    /\ UNCHANGED << store, job, jobArgs, reply, store0, issued, storeOtherVars >>

\* One city of processAllCities' loop; getTopClinicsForCity logs an error and
\* returns [].
FeatureTop ==
    /\ job = "feature" /\ jpc = "top"
    /\ LET c == jobLocals.cities[jobLocals.citiesProcessed + 1]
           last == jobLocals.citiesProcessed + 1 = Len(jobLocals.cities)
       IN  /\ \E failed \in BOOLEAN :
                IF failed
                THEN /\ storeError' = TRUE
                     /\ jobLocals' = [ jobLocals EXCEPT !.citiesProcessed = @ + 1 ]
                ELSE /\ UNCHANGED storeError
                     /\ \E topClinics \in
                            getTopClinicsForCity(store, c.city, c.state, jobArgs.topCount) :
                          jobLocals' = [ jobLocals EXCEPT
                                           !.citiesProcessed = @ + 1,
                                           !.allFeaturedIds = @ \o topClinics ]
           /\ jpc' = IF last THEN "mark" ELSE "top"
    /\ UNCHANGED << store, job, jobArgs, reply, store0, issued, storeOtherVars >>

\* The end of processAllCities: nothing in a dry run, else one batch of
\* markClinicsAsFeatured; a batch error is logged and the loop goes on.
FeatureMark ==
    /\ job = "feature" /\ jpc = "mark"
    /\ LET ids == jobLocals.allFeaturedIds
           upTo == IF jobLocals.i + BATCH_SIZE < Len(ids)
                   THEN jobLocals.i + BATCH_SIZE ELSE Len(ids)
           batch == SubSeq(ids, jobLocals.i + 1, upTo)
       IN  IF ~LiveMode(jobArgs) \/ Len(ids) = 0
           THEN /\ jpc' = "done"
                /\ UNCHANGED << store, jobLocals, storeError, issued >>
           ELSE /\ issued' = Append(issued, [ op |-> "mark", ids |-> batch ])
                /\ \E failed \in BOOLEAN :
                     IF failed
                     THEN storeError' = TRUE /\ UNCHANGED store
                     ELSE store' = markRows(store, batch) /\ UNCHANGED storeError
                /\ jobLocals' = [ jobLocals EXCEPT !.i = @ + BATCH_SIZE ]
                /\ jpc' = IF jobLocals.i + BATCH_SIZE < Len(ids) THEN "mark" ELSE "done"
    /\ UNCHANGED << job, jobArgs, reply, store0, storeOtherVars >>

-----------------------------------------------------------------------------
(* The cleanup script *)

\* A faulty test that only looks for a missing state code.
isNonUSMissingOnly(c) == ~Truthy(c.state_code)

\* !c.state_code || !VALID_US_STATES.includes(c.state_code)
isNonUS(c) == ~Truthy(c.state_code) \/ c.state_code \notin FIFTY_STATES_AND_DC

\* cleanDatabase up to its delete request.
CleanFetch ==
    /\ job = "cleanup" /\ jpc = "start"
    /\ \E failed \in BOOLEAN :
         IF failed
         THEN storeError' = TRUE /\ jpc' = "done" /\ UNCHANGED jobLocals
         ELSE LET nonUSClinics == SelectSeq(store, isNonUS)
              IN  /\ UNCHANGED storeError
                  /\ jobLocals' =
                       [ placeIds |-> [ i \in DOMAIN nonUSClinics |->
                                          nonUSClinics[i].place_id ] ]
                  /\ jpc' = IF Len(nonUSClinics) = 0 THEN "done" ELSE "delete"
    /\ UNCHANGED << store, job, jobArgs, reply, store0, issued, storeOtherVars >>

\* .delete().in('place_id', placeIds); an error is logged.
CleanDelete ==
    /\ job = "cleanup" /\ jpc = "delete"
    /\ issued' = Append(issued, [ op |-> "delete", ids |-> jobLocals.placeIds ])
    /\ \E failed \in BOOLEAN :
         IF failed
         THEN storeError' = TRUE /\ UNCHANGED store
         ELSE LET Kept(r) == r.place_id \notin Range(jobLocals.placeIds)
              IN  store' = SelectSeq(store, Kept) /\ UNCHANGED storeError
    /\ jpc' = "done"
    /\ UNCHANGED << job, jobArgs, jobLocals, reply, store0, storeOtherVars >>

-----------------------------------------------------------------------------
(* The clinic detail page, in its two versions *)

\* The identifiers asked for: one of a row, one of no row.
DetailIdSamples == { "a1", "zz" }

\* getClinic: .eq('place_id', id).single(); error || !data gives null.
getClinic(rows, id, failed) ==
    LET found == { r \in Range(rows) : r.place_id = id }
    IN  IF failed \/ found = {} THEN NoRecord ELSE CHOOSE r \in found : TRUE

\* The server-rendered page: notFound() when getClinic returns null.
DetailServerRender ==
    /\ job = "detailServer" /\ jpc = "start"
    /\ \E failed \in BOOLEAN :
         LET rawClinic == getClinic(store, jobArgs.id, failed)
         IN  /\ storeError' = failed
             /\ reply' = IF rawClinic = NoRecord
                         THEN [ shown |-> "notFound" ]
                         ELSE [ shown |-> "clinic", clinic |-> rawClinic ]
    /\ jpc' = "done"
    /\ UNCHANGED << store, job, jobArgs, jobLocals, store0, issued, storeOtherVars >>

\* The answers of /api/clinics/{id}: the record, a not-found condition (as a
\* status or as a body without record), a server error, or no answer at all.
ClinicApiReplies(rows, id) ==
    LET found == { r \in Range(rows) : r.place_id = id }
    IN  (IF found = {}
         THEN { [ kind |-> "response", ok |-> FALSE, status |-> 404, clinic |-> NoRecord ],
                [ kind |-> "response", ok |-> TRUE, status |-> 200, clinic |-> NoRecord ] }
         ELSE { [ kind |-> "response", ok |-> TRUE, status |-> 200, clinic |-> r ] :
                  r \in found })
        \cup { [ kind |-> "response", ok |-> FALSE, status |-> 500, clinic |-> NoRecord ],
               [ kind |-> "threw", ok |-> FALSE, status |-> 0, clinic |-> NoRecord ] }

\* The client page: fetchClinic and the render that follows it.
DetailClientFetch ==
    /\ job = "detailClient" /\ jpc = "start"
    /\ \E res \in ClinicApiReplies(store, jobArgs.id) :
         LET error == res.kind = "threw" \/ ~res.ok
             clinic == IF error THEN NoRecord ELSE res.clinic
         IN  /\ storeError' = (res.kind = "threw" \/ res.status = 500)
             /\ reply' = IF error THEN [ shown |-> "error" ]
                         ELSE IF clinic = NoRecord THEN [ shown |-> "notFound" ]
                         ELSE [ shown |-> "clinic", clinic |-> clinic ]
    /\ jpc' = "done"
    /\ UNCHANGED << store, job, jobArgs, jobLocals, store0, issued, storeOtherVars >>

-----------------------------------------------------------------------------
(* The jobs on the store *)

ArgsOf(j) ==
    CASE j = "feature" ->
           { [ dryRun |-> d, topCount |-> n ] : d \in BOOLEAN, n \in TopCounts }
      [] j \in { "detailServer", "detailClient" } ->
           { [ id |-> id ] : id \in DetailIdSamples }
      [] OTHER -> { NoRecord }

InitStore ==
    /\ RunIdle /\ REJECTED_NON_US = 0 /\ REJECTED_NON_DERM = 0
    /\ ClassifyIdle /\ UIIdle /\ LoadIdle
    /\ store \in Stores /\ store0 = store
    /\ job \in Jobs /\ jobArgs \in ArgsOf(job)
    /\ jpc = "start" /\ jobLocals = NoRecord /\ reply = NoRecord
    /\ storeError = FALSE /\ issued = << >>

NextStore ==
    \/ StatsGet
    \/ FeatureBegin
    \/ FeatureReset
    \/ FeatureCities
    \/ FeatureTop
    \/ FeatureMark
    \/ CleanFetch
    \/ CleanDelete
    \/ DetailServerRender
    \/ DetailClientFetch

SpecStore == InitStore /\ [][NextStore]_vars

-----------------------------------------------------------------------------
(* Claims about the runs of the collection scripts *)

\* The identifier of a collected record (place_id in the comprehensive
\* script's records, id in the other two).
RecordId(rec) == IF "place_id" \in DOMAIN rec THEN rec.place_id ELSE rec.id

FileIds(s) == { RecordId(files[s][i].rec) : i \in DOMAIN files[s] }

\* C1: once a request-budget check has failed, no further state, grid point,
\* city or identifier is started.
C1_HaltsOnBudget ==
    [][ budgetHit => (si' = si /\ gp' = gp /\ ci' = ci /\ di' = di) ]_vars

\* C2: the number of HTTP calls issued never exceeds MAX_REQUESTS, and once the
\* counter has reached the ceiling no step issues an HTTP call.
C2_CallsWithinCeiling ==
    /\ [](httpCalls <= maxRequests)
    /\ [][ TOTAL_REQUESTS >= maxRequests => httpCalls' = httpCalls ]_vars

\* C2 witness: the ceiling has been reached with exactly MAX_REQUESTS calls
\* issued and a budget check has failed.
C2_Witness ==
    budgetHit /\ TOTAL_REQUESTS >= maxRequests /\ httpCalls = maxRequests

\* C3: when the budget check fails while a state is being collected, the
\* records collected for that state so far are in its snapshot file once the
\* run has ended.
C3_CollectedSavedOnBudget ==
    (budgetHit /\ pc \in { "done", "exit" }) =>
        \A i \in DOMAIN hitClinics :
            /\ hitState \in DOMAIN files
            /\ hitClinics[i] \in Range(files[hitState])

\* C4: a written snapshot holds at most one record per place_id.
C4_SnapshotUniqueIds ==
    \A s \in DOMAIN files :
        \A i, j \in DOMAIN files[s] :
            i # j => RecordId(files[s][i].rec) # RecordId(files[s][j].rec)

\* C4 witness: the comprehensive script has written a snapshot of two records
\* for a state in which the grid sweep and the city search found a common
\* identifier.
C4_Witness ==
    /\ script = "comprehensive" /\ pc = "main" /\ si >= 1
    /\ CurrentState \in DOMAIN files
    /\ Len(files[CurrentState]) = 2
    /\ Range(gridIds) \cap Range(cityIds) # {}

\* C5: no snapshot holds a record built from a place whose country code is
\* present and not "US", or whose state code is missing or not one of the 50
\* states plus DC.
C5_OnlyUSRecords ==
    \A s \in DOMAIN files :
        \A i \in DOMAIN files[s] :
            LET ac == parseAddressComponents(files[s][i].from.addressComponents)
            IN  /\ ~(ac.country_code # NULL /\ ac.country_code # "US")
                /\ ac.state_code \in FIFTY_STATES_AND_DC

\* The state just collected by the comprehensive script: collectStateData has
\* returned normally and main has not moved on.
ComprehensiveStateSaved ==
    /\ script = "comprehensive" /\ pc = "main" /\ si >= 1
    /\ CurrentState \in KnownStates(script)

\* The records the detail responses of the state yield, in lookup order.
RECURSIVE RecordsOfLookups(_)
RecordsOfLookups(ls) ==
    IF Len(ls) = 0 THEN << >>
    ELSE LET resp == Head(ls).resp
             built == IF resp.ok /\ isDermatologyClinic(resp.places[1])
                           /\ transformPlace(resp.places[1]) # NoRecord
                      THEN << Entry(transformPlace(resp.places[1]), resp.places[1]) >>
                      ELSE << >>
         IN  built \o RecordsOfLookups(Tail(ls))

\* C9: when the comprehensive script has saved a state, exactly one detail
\* lookup was issued per unique identifier the two strategies discovered, and
\* the snapshot holds exactly the records built from the detail responses.
C9_DetailPass ==
    ComprehensiveStateSaved =>
        /\ { lookups[i].id : i \in DOMAIN lookups } = Range(gridIds) \cup Range(cityIds)
        /\ \A i, j \in DOMAIN lookups : i # j => lookups[i].id # lookups[j].id
        /\ files[CurrentState] = RecordsOfLookups(lookups)
        /\ \A i \in DOMAIN files[CurrentState] :
             \E k \in DOMAIN lookups :
                /\ lookups[k].id = files[CurrentState][i].rec.place_id
                /\ lookups[k].resp.ok
                /\ files[CurrentState][i].rec = transformPlace(lookups[k].resp.places[1])

\* C9 witness: a state saved after two detail lookups, one of which returned
\* data (a phone number) that differs from a copy the discovery may have seen.
C9_Witness ==
    /\ ComprehensiveStateSaved
    /\ Len(lookups) = 2
    /\ \E i \in DOMAIN files[CurrentState] : files[CurrentState][i].rec.phone # NULL

\* C10: no place_id is in the snapshots of two different states.
C10_UniqueAcrossStates ==
    \A s1, s2 \in DOMAIN files : s1 # s2 => FileIds(s1) \cap FileIds(s2) = {}

\* Every unit of the states of the argument list has been attempted: each
\* grid point and each city of each known state, and each identifier found for
\* the state just saved.
AllUnitsAttempted ==
    /\ (pc = "done" /\ ~budgetHit) =>
         /\ si = Len(statesToProcess)
         /\ \A k \in 1..Len(statesToProcess) :
              statesToProcess[k] \in KnownStates(script) =>
                /\ script = "comprehensive" =>
                     \A g \in 1..GridPoints : << k, "grid", g >> \in unitsStarted
                /\ \A c \in 1..NumCities : << k, "city", c >> \in unitsStarted
    /\ ComprehensiveStateSaved =>
         \A i \in DOMAIN allClinicIds : << si, "id", allClinicIds[i] >> \in unitsStarted

\* C11: a failure of a single grid-point query, city query or detail fetch
\* that is not the budget is skipped and logged, and does not end the run:
\* every later unit and state is still attempted.
C11_SkippedLoggedContinues ==
    /\ AllUnitsAttempted
    /\ ~silentFailure

\* C12: at most one outgoing call is in flight at any time, and between two
\* consecutive calls the script is suspended for at least ceil(1000/QPS) ms.
C12_SequentialAndPaced ==
    /\ net.maxInFlight <= 1
    /\ httpCalls >= 1 => net.lastGap >= PacingDelay

\* C12 witness: a second call has been issued, exactly the pacing delay after
\* the first.
C12_Witness ==
    httpCalls >= 2 /\ net.maxInFlight = 1 /\ net.lastGap = PacingDelay

\* The pagination loop of the text query in progress is at city c, query q.
InQuery(c, q) == script = "comprehensive" /\ pc = "city" /\ ci = c /\ qi = q

\* C13: a text query gets at most 3 page requests; a continuation request is
\* issued only with a token from the previous response and at least
\* NEXT_PAGE_DELAY_MS after it; and the pagination loop of a query terminates.
C13_Pagination ==
    /\ [](pageRequests <= MaxPages)
    /\ [][ (pageRequests >= 1 /\ pageRequests' = pageRequests + 1) =>
             (pageToken /\ net'.lastGap >= NEXT_PAGE_DELAY_MS) ]_vars
    /\ \A c \in 0..(NumCities - 1) : \A q \in 0..(Len(textQueries) - 1) :
         InQuery(c, q) ~> ~InQuery(c, q)

\* C13 witness: the third page of a query has been requested with the token
\* of the second.
C13_Witness ==
    script = "comprehensive" /\ pageRequests = MaxPages
      /\ net.lastGap = NEXT_PAGE_DELAY_MS + PacingDelay

\* C14: the request counter equals the number of outgoing calls issued, at
\* every point of a run.
C14_CounterIsCalls == TOTAL_REQUESTS = httpCalls

\* C15: a run that has ended has printed the final summary.
C15_SummaryPrinted == pc \in { "done", "exit" } => pc = "done"

\* C30: in the comprehensive script every accepted place that a successful
\* city-search response returned is in the state's identifier set when the
\* detail pass begins, also when a later page or query of the city failed.
C30_CityResultsKept ==
    (script = "comprehensive" /\ pc = "detail") =>
        \A r \in cityReturned : r[1] = si => r[2] \in Range(allClinicIds)

-----------------------------------------------------------------------------
(* Claims about the classifier and the transformer *)

HasExclusionTerm(place) ==
    \E t \in { "dental", "dentist", "orthodont", "veterinary", "animal", "pet",
               "massage", "spa resort", "nail salon" } :
        Includes(searchTextOf(place), t)
HasSkinCareTag(place) == "skin_care_clinic" \in Range(place.types)
HasCoreTerm(place) ==
    \E t \in { "dermatology", "dermatologist", "dermatologic" } :
        Includes(searchTextOf(place), t)
HasRelatedTerm(place) ==
    \E t \in { "skin clinic", "skin center", "skin care clinic", "skin doctor",
               "skin specialist", "skin health", "medical dermatology",
               "cosmetic dermatology", "mohs surgery", "skin cancer" } :
        Includes(nameOf(place), t) \/ Includes(websiteOf(place), t)
HasLooseTerm(place) ==
    \/ Includes(searchTextOf(place), "derm")
    \/ Includes(nameOf(place), "skin") \/ Includes(websiteOf(place), "skin")
HasMedicalContext(place) ==
    \/ "doctor" \in Range(place.types) \/ "health" \in Range(place.types)
    \/ Includes(searchTextOf(place), "medical")
    \/ Includes(searchTextOf(place), "clinic")

\* The ordered policy: <<condition, accept?>>, first match wins.
PolicyRules(place) ==
    << << HasExclusionTerm(place), FALSE >>,
       << HasSkinCareTag(place), TRUE >>,
       << HasCoreTerm(place), TRUE >>,
       << HasRelatedTerm(place), TRUE >>,
       << HasLooseTerm(place) /\ HasMedicalContext(place), TRUE >>,
       << TRUE, FALSE >> >>
FirstMatch(rules) ==
    rules[CHOOSE i \in DOMAIN rules :
            rules[i][1] /\ \A j \in 1..(i - 1) : ~rules[j][1]][2]

PassesUSCheck(place) == ~RejectsNonUS(parseAddressComponents(ComponentsOf(place)))

\* C6: for a place that passes the US check the classifier returns what the
\* ordered policy gives, a rejection being counted as non-dermatology; a place
\* whose text contains "dermatology" is accepted unless an exclusion term is
\* present, which wins.
C6_OrderedPolicy ==
    (cStep # "input" /\ cStep # "idle" /\ PassesUSCheck(cPlace)) =>
        /\ cAccepted = FirstMatch(PolicyRules(cPlace))
        /\ (~cAccepted => REJECTED_NON_DERM = 1 /\ REJECTED_NON_US = 0)
        /\ (cAccepted => REJECTED_NON_DERM = 0 /\ REJECTED_NON_US = 0)
        /\ (Includes(searchTextOf(cPlace), "dermatology")
              => (cAccepted <=> ~HasExclusionTerm(cPlace)))

\* C6 witness: a classified US place whose name contains "dermatology" and an
\* exclusion term, rejected.
C6_Witness ==
    /\ cStep = "classified" /\ PassesUSCheck(cPlace)
    /\ Includes(searchTextOf(cPlace), "dermatology")
    /\ HasExclusionTerm(cPlace)
    /\ ~cAccepted /\ REJECTED_NON_DERM = 1

\* The claim's non-US condition: country code present and not "US", or state
\* code missing or not one of the 50 states plus DC.
ClaimedNonUS(place) ==
    LET ac == parseAddressComponents(ComponentsOf(place))
    IN  \/ (ac.country_code # NULL /\ ac.country_code # "US")
        \/ ac.state_code = NULL
        \/ ac.state_code \notin FIFTY_STATES_AND_DC

\* C7: the classifier rejects a place as non_us exactly when the claim's
\* non-US condition holds, and such a rejection bumps only the non-US counter.
C7_NonUSExactly ==
    (cStep # "input" /\ cStep # "idle") =>
        /\ (REJECTED_NON_US = 1) <=> ClaimedNonUS(cPlace)
        /\ (REJECTED_NON_US = 1 => (REJECTED_NON_DERM = 0 /\ ~cAccepted))

\* C8: transformPlace returns no record exactly when the identifier is missing
\* or address parsing yields no valid state code.
C8_NoRecordExactly ==
    cStep = "transformed" =>
        ((cClinic = NoRecord) <=>
            \/ cPlace.id = NULL
            \/ parseAddressComponents(ComponentsOf(cPlace)).state_code
                  \notin FIFTY_STATES_AND_DC)

-----------------------------------------------------------------------------
(* Claims about the clinics list page *)

\* The place_ids of a list.
IdsOf(list) == { list[i].place_id : i \in DOMAIN list }

\* A present, non-blank text field.
HasText(v) == v # NULL /\ trim(v) # ""

\* The record satisfies every enabled predicate of the filter settings.
Satisfies(c, f) ==
    /\ f.rating_min # 0 => OrZero(c.rating) >= f.rating_min
    /\ f.has_website => HasText(c.website)
    /\ f.has_phone => HasText(c.phone)
    /\ f.wheelchair_accessible =>
         (c.accessibility_options # NoRecord
            /\ c.accessibility_options.wheelchair_accessible_entrance)
    /\ f.free_parking =>
         (c.parking_options # NoRecord /\ c.parking_options.free_parking_lot)
    /\ f.open_now =>
         (c.current_open_now
            \/ (c.opening_hours # NoRecord /\ c.opening_hours.open_now))
    /\ Len(f.states) > 0 =>
         (c.state_code # NULL /\ c.state_code \in Range(f.states))

\* C16: applyFilters returns exactly the loaded records that satisfy every
\* enabled predicate; a minimum rating m keeps exactly the ratings >= m, a
\* missing rating counting as 0.
C16_FilterExactly ==
    lastOp = "filter" =>
        /\ Range(filteredClinics)
             = { c \in Range(loadedClinics) : Satisfies(c, filters) }
        /\ Len(filteredClinics) = Cardinality(IdsOf(filteredClinics))
        /\ filters.rating_min # 0 =>
             \A c \in Range(loadedClinics) :
                (c \in Range(filteredClinics) /\ c.rating # MISSING)
                   => c.rating >= filters.rating_min

\* C16 witness: a minimum rating of 4.0 has kept a record rated exactly 4.0
\* and dropped a record without rating.
C16_Witness ==
    /\ lastOp = "filter" /\ filters.rating_min = 40
    /\ \E c \in Range(filteredClinics) : c.rating = 40
    /\ \E c \in Range(loadedClinics) :
         c.rating = MISSING /\ c \notin Range(filteredClinics)

\* Position of a record in the loaded list.
LoadedIndex(c) == CHOOSE i \in DOMAIN loadedClinics : loadedClinics[i] = c

\* C17: with a sort key, applyFilters orders the filtered records by the key,
\* ascending for 'asc' and descending otherwise, names compared without case,
\* a missing number as 0; records with equal keys keep their loaded order.
C17_SortedStable ==
    (lastOp = "filter" /\ filters.sort_by \in { "rating", "reviews", "name" }) =>
        \A i, j \in DOMAIN filteredClinics :
            i < j =>
              LET by == filters.sort_by
                  ki == sortValue(filteredClinics[i], by)
                  kj == sortValue(filteredClinics[j], by)
              IN  /\ IF filters.sort_order = "asc"
                     THEN ~valueLess(kj, ki, by)
                     ELSE ~valueLess(ki, kj, by)
                  /\ (ki = kj) =>
                       LoadedIndex(filteredClinics[i]) < LoadedIndex(filteredClinics[j])

\* C17 witness: a descending sort by rating has moved a record forward and
\* left two records of equal rating in their loaded order.
C17_Witness ==
    /\ lastOp = "filter" /\ filters.sort_by = "rating" /\ filters.sort_order = "desc"
    /\ filteredClinics # loadedClinics
    /\ Len(filteredClinics) = Len(loadedClinics)
    /\ \E i, j \in DOMAIN filteredClinics :
         i < j /\ filteredClinics[i].rating = filteredClinics[j].rating

\* The query is exactly five digits.
FiveDigits(q) == Len(q) = 5 /\ \A i \in 1..Len(q) : CharAt(q, i) \in Digits

\* One of the searched fields contains the query, case-insensitively.
FieldContains(c, q) ==
    \E field \in { OrEmpty(c.display_name), OrEmpty(c.formatted_address),
                   OrEmpty(c.city), OrEmpty(c.state_code),
                   join(c.types, " "), OrEmpty(c.primary_type) } :
        Includes(toLowerCase(field), toLowerCase(q))

\* C18: handleSearch with a five-digit query returns exactly the records whose
\* postal_code equals it; with a blank query the whole loaded list; otherwise
\* exactly the records one of whose searched fields contains the query.
C18_SearchExactly ==
    lastOp = "search" =>
        LET q == trim(lastQuery)
            ByZip(c) == c.postal_code = q
            ByText(c) == FieldContains(c, q)
        IN  filteredClinics =
              IF q = "" THEN loadedClinics
              ELSE IF FiveDigits(q) THEN SelectSeq(loadedClinics, ByZip)
              ELSE SelectSeq(loadedClinics, ByText)

\* C18 witness: the query 90210 has returned the one record of that postal
\* code and not a record whose address contains the digits.
C18_Witness ==
    /\ lastOp = "search" /\ trim(lastQuery) = "90210"
    /\ Len(filteredClinics) = 1 /\ filteredClinics[1].postal_code = "90210"
    /\ \E c \in Range(loadedClinics) :
         /\ c.postal_code # "90210"
         /\ Includes(c.formatted_address, "90210")

\* C19: handleLocationSearch produces a list of exactly the loaded records,
\* each with a distance, in non-decreasing order of distance.
C19_LocationSearch ==
    lastOp = "location" =>
        /\ ~threw
        /\ Len(filteredClinics) = Len(loadedClinics)
        /\ IdsOf(filteredClinics) = IdsOf(loadedClinics)
        /\ \A i \in DOMAIN filteredClinics : "distance" \in DOMAIN filteredClinics[i]
        /\ \A i, j \in DOMAIN filteredClinics :
             i < j => filteredClinics[i].distance <= filteredClinics[j].distance

\* C20: the clinics list is never changed: it holds the loaded records in the
\* loaded order, without a distance field.
C20_SourceUnchanged == pageClinics = loadedClinics

\* C20 witness: applyFilters has sorted the whole list into another order
\* while the clinics list kept the loaded one.
C20_Witness ==
    /\ lastOp = "filter" /\ Truthy(filters.sort_by) /\ ~anyFilterEnabled(filters)
    /\ filteredClinics # pageClinics
    /\ IdsOf(filteredClinics) = IdsOf(pageClinics)

-----------------------------------------------------------------------------
(* Claims about the detail page, the stats endpoint and the offline jobs *)

\* The identifier asked for is the place_id of no row.
UnknownId == \A r \in Range(store0) : r.place_id # jobArgs.id

\* C22: on the clinic detail page an unknown identifier is shown as "not
\* found" and never as an error, and a fetch or store error is shown as an
\* error and never as "not found".
C22_NotFoundDistinct ==
    (job \in { "detailServer", "detailClient" } /\ jpc = "done") =>
        /\ storeError => reply.shown = "error"
        /\ (~storeError /\ UnknownId) => reply.shown = "notFound"

\* The rows whose state code is one of the 50 states or DC.
ValidRows(rows) == { r \in Range(rows) : r.state_code \in FIFTY_STATES_AND_DC }

RECURSIVE EntriesTotal(_, _)
EntriesTotal(entries, n) ==
    IF n = 0 THEN 0 ELSE entries[n].clinicCount + EntriesTotal(entries, n - 1)

\* C23: the stats endpoint returns totalClinics equal to the sum of the
\* per-state counts and to the number of rows with a valid state code,
\* totalStates equal to the number of distinct valid state codes present, and
\* the per-state entries in non-increasing order of clinicCount.
C23_StatsTotals ==
    (job = "stats" /\ jpc = "done" /\ reply.ok) =>
        /\ reply.totalClinics = EntriesTotal(reply.states, Len(reply.states))
        /\ reply.totalClinics = Cardinality(ValidRows(store))
        /\ reply.totalStates
             = Cardinality({ r.state_code : r \in ValidRows(store) })
        /\ \A i, j \in DOMAIN reply.states :
             i < j => reply.states[i].clinicCount >= reply.states[j].clinicCount

\* C23 witness: the endpoint has answered for a table that holds rows without
\* valid state code, and the sort has moved a state with more rows in front of
\* the state seen first.
C23_Witness ==
    /\ job = "stats" /\ jpc = "done" /\ reply.ok
    /\ ValidRows(store) # Range(store)
    /\ Len(reply.states) >= 2
    /\ reply.states[1].clinicCount > reply.states[2].clinicCount
    /\ reply.states[1].code # store[2].state_code

\* The place_ids of the featured rows.
Featured(rows) == { r.place_id : r \in { q \in Range(rows) : q.featured_clinic } }

\* An operational, rated clinic of a city and state.
Eligible(r) ==
    /\ r.business_status = "OPERATIONAL" /\ r.rating # MISSING
    /\ r.city # NULL /\ r.state_code # NULL

\* The eligible clinics of r's (city, state).
CityGroup(rows, r) ==
    { q \in Range(rows) :
        Eligible(q) /\ q.city = r.city /\ q.state_code = r.state_code }

\* a is ranked above b: by rating, then by review count.
RanksAbove(a, b) ==
    \/ a.rating > b.rating
    \/ (a.rating = b.rating /\ a.user_rating_count > b.user_rating_count)

\* The featured clinics are, in every (city, state), a top n of its eligible
\* clinics (clinics that tie for the last place are told apart by the store),
\* and nothing else is featured.
FeaturedIsTopN(rows, n) ==
    /\ \A r \in Range(rows) : r.featured_clinic => Eligible(r)
    /\ \A r \in Range(rows) :
         Eligible(r) =>
           LET group == CityGroup(rows, r)
               in == { q \in group : q.featured_clinic }
           IN  /\ Cardinality(in)
                    = IF Cardinality(group) < n THEN Cardinality(group) ELSE n
               /\ \A a \in in, b \in group \ in : ~RanksAbove(b, a)

LiveRunOver(pcs) == job = "feature" /\ ~jobArgs.dryRun /\ jpc \in pcs

\* C24: after a live run of the auto-feature script that met no store error,
\* a clinic is featured if and only if it is among the top N operational,
\* rated clinics of its (city, state): no (city, state) has more than N
\* featured clinics and nothing featured before stays featured otherwise.
C24_FeaturedAreTopN ==
    (LiveRunOver({ "done" }) /\ ~storeError) =>
        FeaturedIsTopN(store, jobArgs.topCount)

\* C24 witness: a live run has ended without error in a table where a city
\* has more eligible clinics than N; a clinic featured before is no longer
\* featured and another one is featured now.
C24_Witness ==
    /\ LiveRunOver({ "done" }) /\ ~storeError
    /\ \E r \in Range(store) :
         Eligible(r) /\ Cardinality(CityGroup(store, r)) > jobArgs.topCount
    /\ Featured(store0) \ Featured(store) # {}
    /\ Featured(store) \ Featured(store0) # {}

\* C25: a dry run of the auto-feature script issues neither the reset nor a
\* featured update, and the store stays as it was.
C25_DryRunNoMutation ==
    (job = "feature" /\ jobArgs.dryRun) => (store = store0 /\ issued = << >>)

\* C25 witness: a dry run has ended with clinics to feature that are not the
\* ones featured in the store.
C25_Witness ==
    /\ job = "feature" /\ jobArgs.dryRun /\ jpc = "done"
    /\ Len(jobLocals.allFeaturedIds) > 0
    /\ Range(jobLocals.allFeaturedIds) # Featured(store0)
    /\ Featured(store0) # {}

\* C26: after a successful cleanup pass the table holds exactly the rows it
\* held before whose state code is one of the 50 states or DC, unchanged.
C26_CleanupExact ==
    (job = "cleanup" /\ jpc = "done" /\ ~storeError) =>
        LET Valid(r) == r \in ValidRows(store0)
        IN  store = SelectSeq(store0, Valid)

\* C26 witness: a pass has deleted a row without state code and a row with a
\* foreign code and has left rows in the table.
C26_Witness ==
    /\ job = "cleanup" /\ jpc = "done" /\ ~storeError
    /\ Len(issued) = 1 /\ Len(store) > 0
    /\ \E r \in Range(store0) \ Range(store) : r.state_code = NULL
    /\ \E r \in Range(store0) \ Range(store) : r.state_code = "ON"

\* C29: whatever fails after the reset, a live run of the auto-feature script
\* leaves the featured set either as it was before the run or as the full
\* newly computed top N.
C29_AllOrNothing ==
    LiveRunOver({ "done", "exit" }) =>
        \/ Featured(store) = Featured(store0)
        \/ FeaturedIsTopN(store, jobArgs.topCount)

====
